---- MODULE Spec2Model ----
(***************************************************************************)
(* Model of go-fssync: FsSyncer.Sync mirrors a source tree onto a          *)
(* destination tree (sync.go, latest revision) with the buffered copy loop *)
(* of copy.go.  The filesystem the library drives through package os is    *)
(* modelled as a table of names and a table of inodes.                     *)
(*                                                                         *)
(* Paths are sequences of components (<<"S","d","c">> is S/d/c).  Times    *)
(* are opaque values compared by equality only, as the code does.  The     *)
(* access time travels with the modification time everywhere in the code   *)
(* and is not modelled separately.  The process umask is taken to be 0.    *)
(***************************************************************************)
EXTENDS Integers, Sequences, FiniteSets, TLC

VARIABLES
    disk,          \* the filesystem: [names: path -> inode number, inodes: number -> inode]
    syncer,        \* the FsSyncer value (its options)
    pc,            \* position of the Sync call
    src, dst,      \* the cleaned arguments of the running Sync call
    todo,          \* entries filepath.Walk still has to visit, in order
    state,         \* syncState: [timesMap, inoMap]
    report,        \* fsSyncReport.fileChanges (the set of keys)
    err,           \* error returned by Sync ("" is nil)
    cur,           \* the entry being processed by the walk callback
    dirsToRemove,  \* Phase B: extraneous directories, in visitation order
    pending,       \* Phase C: keys of timesMap the range loop has not reached
    run,           \* number of Sync calls started
    oplog,         \* filesystem mutations performed by the running call
    pre,           \* the filesystem when the running call started
    sched          \* [id: the Sync call the variables above belong to,
                   \*  saved: the variables of the calls of other goroutines]

vars == <<disk, syncer, pc, src, dst, todo, state, report, err, cur,
          dirsToRemove, pending, run, oplog, pre, sched>>

-----------------------------------------------------------------------------
(* Bounds *)

MaxRuns == 2
MaxLen == 4               \* longest file of the copy scenarios
MaxBuf == 3               \* largest buffer size asked for in the copy scenarios      \* consecutive Sync calls on the same pair of trees
CopyBuf == 1      \* buffer size the syncer is configured with (bytes)

-----------------------------------------------------------------------------
(* Paths and strings *)

SrcRoot == <<"S">>
DstRoot == <<"D">>
RootNames == {"S", "D", "O"}

NoErr == ""
Now == "now"              \* time stamped by the filesystem on a mutation
ProcUid == "proc"         \* owner of what the process creates

Parent(p) == SubSeq(p, 1, Len(p) - 1)
Base(p) == p[Len(p)]
IsPrefix(p, q) == Len(p) <= Len(q) /\ SubSeq(q, 1, Len(p)) = p
IsAbs(t) == t # <<>> /\ Head(t) \in RootNames

\* filepath.Clean on a component sequence: drops the "." components.
Clean(p) == SelectSeq(p, LAMBDA n : n # ".")

RECURSIVE Index(_, _, _)
Index(s, sub, i) ==
    IF i + Len(sub) - 1 > Len(s) THEN 0
    ELSE IF SubSeq(s, i, i + Len(sub) - 1) = sub THEN i
    ELSE Index(s, sub, i + 1)

\* strings.Contains
Contains(s, sub) == Index(s, sub, 1) # 0

\* strings.Replace(s, old, new, 1): the first occurrence only.
Replace(s, old, new) ==
    LET i == Index(s, old, 1) IN
    IF i = 0 THEN s
    ELSE SubSeq(s, 1, i - 1) \o new \o SubSeq(s, i + Len(old), Len(s))

\* lexical order of the names used (readDirNames sorts)
NameRank(n) ==
    CASE n = ".D" -> 0 [] n = ".a" -> 1 [] n = ".b" -> 2 [] n = ".c" -> 3
      [] n = ".d" -> 4 [] n = "D" -> 5 [] n = "O" -> 6 [] n = "S" -> 7
      [] n = "a" -> 8 [] n = "b" -> 9 [] n = "c" -> 10 [] n = "d" -> 11
      [] OTHER -> 12

RECURSIVE SortNames(_)
SortNames(S) ==
    IF S = {} THEN <<>>
    ELSE LET m == CHOOSE x \in S : \A y \in S : NameRank(x) <= NameRank(y)
         IN <<m>> \o SortNames(S \ {m})

\* tmpFileName: a hidden sibling of base in dir; the pseudo-random numeric
\* suffix is one fixed value per base name.
TmpBase(base) ==
    CASE base = "a" -> ".a" [] base = "b" -> ".b" [] base = "c" -> ".c"
      [] base = "d" -> ".d" [] OTHER -> ".D"

\* the new entry is built at the destination path itself
tmpFileName_InPlace(dir, base) == Append(dir, base)

tmpFileName(dir, base) == Append(dir, TmpBase(base))

-----------------------------------------------------------------------------
(* The filesystem (package os as the code uses it) *)

DirBlock == <<0, 0>>      \* what a directory's own st_size counts

Size(i) == IF i.kind = "dir" THEN Len(DirBlock) ELSE Len(i.data)
IsDir(i) == i.kind = "dir"
IsSymlink(i) == i.kind = "symlink"

NoInfo == [kind |-> "none", mode |-> "", uid |-> "", mtime |-> "", data |-> <<>>]

KindAt(d, p) == d.inodes[d.names[p]].kind

\* Path resolution: intermediate symbolic links are always followed, the
\* last component only when follow is TRUE.
RECURSIVE ResolveFrom(_, _, _, _, _)
ResolveFrom(d, at, rest, follow, depth) ==
    IF rest = <<>> THEN [err |-> NoErr, path |-> at]
    ELSE IF at # <<>> /\ KindAt(d, at) # "dir" THEN [err |-> "ENOTDIR", path |-> <<>>]
    ELSE LET cand == Append(at, Head(rest)) IN
         IF cand \notin DOMAIN d.names
         THEN [err |-> "ENOENT", path |-> IF Len(rest) = 1 THEN cand ELSE <<>>]
         ELSE IF KindAt(d, cand) = "symlink" /\ (Len(rest) > 1 \/ follow)
         THEN IF depth = 0 THEN [err |-> "ELOOP", path |-> <<>>]
              ELSE LET t == d.inodes[d.names[cand]].data IN
                   ResolveFrom(d, IF IsAbs(t) THEN <<>> ELSE at,
                               t \o Tail(rest), follow, depth - 1)
         ELSE ResolveFrom(d, cand, Tail(rest), follow, depth)

Resolve(d, p, follow) == ResolveFrom(d, <<>>, p, follow, Cardinality(DOMAIN d.names))

StatWith(d, p, follow) ==
    LET r == Resolve(d, p, follow) IN
    IF r.err # NoErr THEN [err |-> r.err, ino |-> 0, info |-> NoInfo]
    ELSE [err |-> NoErr, ino |-> d.names[r.path], info |-> d.inodes[d.names[r.path]]]

Lstat(d, p) == StatWith(d, p, FALSE)
Stat(d, p) == StatWith(d, p, TRUE)

Children(d, dir) == {q \in DOMAIN d.names : Len(q) = Len(dir) + 1 /\ IsPrefix(dir, q)}

\* readDirNames of filepath.Walk: the sorted names of a directory
ReadDirNames(d, dir) == SortNames({Base(q) : q \in Children(d, dir)})

FreshIno(d) ==
    CHOOSE i \in 1..(Cardinality(DOMAIN d.inodes) + 1) :
        /\ i \notin DOMAIN d.inodes
        /\ \A j \in 1..(i - 1) : j \in DOMAIN d.inodes

\* a change of a directory's entries stamps the directory
Touch(d, dir) ==
    IF dir \in DOMAIN d.names
    THEN [d EXCEPT !.inodes[d.names[dir]].mtime = Now]
    ELSE d

\* drop the inodes no name refers to any more
Collect(names, inodes) ==
    [names |-> names,
     inodes |-> [i \in {names[q] : q \in DOMAIN names} |-> inodes[i]]]

CreateAt(d, p, rec) ==
    LET i == FreshIno(d) IN
    Touch([names |-> (p :> i) @@ d.names, inodes |-> (i :> rec) @@ d.inodes], Parent(p))

UnlinkAt(d, p) ==
    Touch(Collect([q \in DOMAIN d.names \ {p} |-> d.names[q]], d.inodes), Parent(p))

\* os.Remove
Remove(d, p) ==
    LET r == Resolve(d, p, FALSE) IN
    IF r.err # NoErr THEN [err |-> r.err, disk |-> d]
    ELSE IF KindAt(d, r.path) = "dir" /\ Children(d, r.path) # {}
    THEN [err |-> "ENOTEMPTY", disk |-> d]
    ELSE [err |-> NoErr, disk |-> UnlinkAt(d, r.path)]

\* os.RemoveAll: nil when the path does not exist
RemoveAll(d, p) ==
    LET r == Resolve(d, p, FALSE) IN
    IF r.err = "ENOENT" THEN [err |-> NoErr, disk |-> d]
    ELSE IF r.err # NoErr THEN [err |-> r.err, disk |-> d]
    ELSE [err |-> NoErr,
          disk |-> Touch(Collect([q \in {x \in DOMAIN d.names : ~IsPrefix(r.path, x)}
                                     |-> d.names[q]], d.inodes),
                         Parent(r.path))]

NewInode(kind, mode, data) ==
    [kind |-> kind, mode |-> mode, uid |-> ProcUid, mtime |-> Now, data |-> data]

\* os.Mkdir
Mkdir(d, p, mode) ==
    LET r == Resolve(d, p, FALSE) IN
    IF r.err = NoErr THEN [err |-> "EEXIST", disk |-> d]
    ELSE IF r.err = "ENOENT" /\ r.path # <<>>
    THEN [err |-> NoErr, disk |-> CreateAt(d, r.path, NewInode("dir", mode, <<>>))]
    ELSE [err |-> r.err, disk |-> d]

\* os.MkdirAll
RECURSIVE MkdirAll(_, _, _)
MkdirAll(d, p, mode) ==
    LET st == Stat(d, p) IN
    IF st.err = NoErr
    THEN [err |-> IF IsDir(st.info) THEN NoErr ELSE "ENOTDIR", disk |-> d]
    ELSE LET up == IF Len(p) > 1 THEN MkdirAll(d, Parent(p), mode)
                   ELSE [err |-> NoErr, disk |-> d]
         IN IF up.err # NoErr THEN up ELSE Mkdir(up.disk, p, mode)

\* os.Symlink
Symlink(d, target, p) ==
    LET r == Resolve(d, p, FALSE) IN
    IF r.err = NoErr THEN [err |-> "EEXIST", disk |-> d]
    ELSE IF r.err = "ENOENT" /\ r.path # <<>>
    THEN [err |-> NoErr, disk |-> CreateAt(d, r.path, NewInode("symlink", "rwx", target))]
    ELSE [err |-> r.err, disk |-> d]

\* os.Readlink
Readlink(d, p) ==
    LET st == Lstat(d, p) IN
    IF st.err # NoErr THEN [err |-> st.err, target |-> <<>>]
    ELSE IF ~IsSymlink(st.info) THEN [err |-> "EINVAL", target |-> <<>>]
    ELSE [err |-> NoErr, target |-> st.info.data]

\* os.Link: the old name is not followed
Link(d, old, new) ==
    LET ro == Resolve(d, old, FALSE)
        rn == Resolve(d, new, FALSE)
    IN IF ro.err # NoErr THEN [err |-> ro.err, disk |-> d]
       ELSE IF KindAt(d, ro.path) = "dir" THEN [err |-> "EPERM", disk |-> d]
       ELSE IF rn.err = NoErr THEN [err |-> "EEXIST", disk |-> d]
       ELSE IF rn.err = "ENOENT" /\ rn.path # <<>>
       THEN [err |-> NoErr,
             disk |-> Touch([d EXCEPT !.names = (rn.path :> d.names[ro.path]) @@ @],
                            Parent(rn.path))]
       ELSE [err |-> rn.err, disk |-> d]

\* names under old re-rooted at new (a renamed directory takes its subtree along)
Moved(d, old, new) ==
    LET stay == {q \in DOMAIN d.names : ~IsPrefix(old, q)}
        go == {q \in DOMAIN d.names : IsPrefix(old, q)}
        to(q) == new \o SubSeq(q, Len(old) + 1, Len(q))
    IN [q \in stay \cup {to(x) : x \in go} |->
           IF q \in stay THEN d.names[q]
           ELSE d.names[CHOOSE x \in go : to(x) = q]]

\* os.Rename
Rename(d, old, new) ==
    LET ro == Resolve(d, old, FALSE)
        rn == Resolve(d, new, FALSE)
    IN IF ro.err # NoErr THEN [err |-> ro.err, disk |-> d]
       ELSE IF rn.err = NoErr
       THEN IF d.names[rn.path] = d.names[ro.path] THEN [err |-> NoErr, disk |-> d]
            ELSE IF KindAt(d, rn.path) = "dir" /\ KindAt(d, ro.path) # "dir"
            THEN [err |-> "EISDIR", disk |-> d]
            ELSE IF KindAt(d, rn.path) # "dir" /\ KindAt(d, ro.path) = "dir"
            THEN [err |-> "ENOTDIR", disk |-> d]
            ELSE IF Children(d, rn.path) # {} THEN [err |-> "ENOTEMPTY", disk |-> d]
            ELSE LET gone == [q \in DOMAIN d.names \ {rn.path} |-> d.names[q]]
                     d1 == [names |-> gone, inodes |-> d.inodes]
                 IN [err |-> NoErr,
                     disk |-> Touch(Touch(Collect(Moved(d1, ro.path, rn.path), d.inodes),
                                          Parent(ro.path)), Parent(rn.path))]
       ELSE IF rn.err = "ENOENT" /\ rn.path # <<>>
       THEN [err |-> NoErr,
             disk |-> Touch(Touch([d EXCEPT !.names = Moved(d, ro.path, rn.path)],
                                  Parent(ro.path)), Parent(rn.path))]
       ELSE [err |-> rn.err, disk |-> d]

\* os.Chown: follows a symbolic link
Chown(d, p, uid) ==
    LET r == Resolve(d, p, TRUE) IN
    IF r.err # NoErr THEN [err |-> r.err, disk |-> d]
    ELSE [err |-> NoErr, disk |-> [d EXCEPT !.inodes[d.names[r.path]].uid = uid]]

\* os.Chtimes: follows a symbolic link
Chtimes(d, p, mtime) ==
    LET r == Resolve(d, p, TRUE) IN
    IF r.err # NoErr THEN [err |-> r.err, disk |-> d]
    ELSE [err |-> NoErr, disk |-> [d EXCEPT !.inodes[d.names[r.path]].mtime = mtime]]

\* os.Open (read only): the descriptor is the inode
Open(d, p) ==
    LET r == Resolve(d, p, TRUE) IN
    IF r.err # NoErr THEN [err |-> r.err, fd |-> 0]
    ELSE [err |-> NoErr, fd |-> d.names[r.path]]

\* os.OpenFile(p, O_CREATE|O_WRONLY, mode): creates a missing file, opens an
\* existing one without truncating it
OpenFile(d, p, mode) ==
    LET r == Resolve(d, p, TRUE) IN
    IF r.err = NoErr
    THEN IF KindAt(d, r.path) = "dir" THEN [err |-> "EISDIR", disk |-> d, fd |-> 0]
         ELSE [err |-> NoErr, disk |-> d, fd |-> d.names[r.path]]
    ELSE IF r.err = "ENOENT" /\ r.path # <<>>
    THEN LET d2 == CreateAt(d, r.path, NewInode("file", mode, <<>>)) IN
         [err |-> NoErr, disk |-> d2, fd |-> d2.names[r.path]]
    ELSE [err |-> r.err, disk |-> d, fd |-> 0]

\* a read that returns full buffers only: the bytes after the last multiple
\* of n are never returned
ReadAt_WholeBlocks(d, fd, off, n) ==
    LET data == d.inodes[fd].data
    IN IF off + n <= Len(data) THEN SubSeq(data, off + 1, off + n) ELSE <<>>

\* File.Read at offset off into a buffer of n bytes
ReadAt(d, fd, off, n) ==
    LET data == d.inodes[fd].data
        hi == IF off + n < Len(data) THEN off + n ELSE Len(data)
    IN SubSeq(data, off + 1, hi)

\* File.Write of bytes at offset off
WriteAt(d, fd, off, bytes) ==
    LET old == d.inodes[fd].data IN
    [d EXCEPT !.inodes[fd].data =
                  SubSeq(old, 1, off) \o bytes \o SubSeq(old, off + Len(bytes) + 1, Len(old)),
              !.inodes[fd].mtime = Now]

-----------------------------------------------------------------------------
(* The trees a Sync call may find *)

File(data, mtime, mode, uid) ==
    [kind |-> "file", mode |-> mode, uid |-> uid, mtime |-> mtime, data |-> data]
Dir(mtime, mode, uid) ==
    [kind |-> "dir", mode |-> mode, uid |-> uid, mtime |-> mtime, data |-> <<>>]
Sym(target, mtime, uid) ==
    [kind |-> "symlink", mode |-> "rwx", uid |-> uid, mtime |-> mtime, data |-> target]

Entry(p, i, n) == [p |-> p, i |-> i, n |-> n]

DiskOf(E) ==
    [names |-> [q \in {e.p : e \in E} |-> (CHOOSE e \in E : e.p = q).i],
     inodes |-> [j \in {e.i : e \in E} |-> (CHOOSE e \in E : e.i = j).n]]

F0 == File(<<1, 1>>, "t1", "rw", "owner")

SrcBVariants == {"none", "hard", "file", "symrel", "symabs", "symtwice", "dangling"}
SrcDVariants == {"none", "dirfile", "dirdir"}
DstAVariants == {"none", "same", "mtime", "data", "size", "meta", "sym", "symdiff",
                 "dirsame", "dirdiff"}
DstBVariants == {"none", "file1", "file2", "hard", "symrel"}
DstDVariants == {"none", "dir", "dirnest", "filesame", "filediff"}

SrcEntries(b, dd) ==
    {Entry(<<"S">>, 1, Dir("t1", "rwx", "owner")), Entry(<<"S", "a">>, 2, F0)}
    \cup (CASE b = "hard" -> {Entry(<<"S", "b">>, 2, F0)}
            [] b = "file" -> {Entry(<<"S", "b">>, 3, File(<<1, 1>>, "t2", "rw", "owner"))}
            [] b = "symrel" -> {Entry(<<"S", "b">>, 3, Sym(<<"a">>, "t2", "owner"))}
            [] b = "symabs" -> {Entry(<<"S", "b">>, 3, Sym(<<"S", "a">>, "t2", "owner"))}
            [] b = "symtwice" -> {Entry(<<"S", "b">>, 3, Sym(<<"O", "S", "S">>, "t2", "owner"))}
            [] b = "dangling" -> {Entry(<<"S", "b">>, 3, Sym(<<"zz">>, "t2", "owner"))}
            [] OTHER -> {})
    \cup (CASE dd = "dirfile" ->
                 {Entry(<<"S", "d">>, 4, Dir("t1", "rwx", "owner")),
                  Entry(<<"S", "d", "c">>, 5, File(<<2>>, "t2", "rw", "owner"))}
            [] dd = "dirdir" ->
                 {Entry(<<"S", "d">>, 4, Dir("t1", "rwx", "owner")),
                  Entry(<<"S", "d", "c">>, 5, Dir("t2", "rwx", "owner"))}
            [] OTHER -> {})

DstEntries(a, b, dd) ==
    {Entry(<<"D">>, 6, Dir("t0", "rwx", "owner"))}
    \cup (CASE a = "same" -> {Entry(<<"D", "a">>, 7, F0)}
            [] a = "mtime" -> {Entry(<<"D", "a">>, 7, File(<<1, 1>>, "t2", "rw", "owner"))}
            [] a = "data" -> {Entry(<<"D", "a">>, 7, File(<<2, 2>>, "t1", "rw", "owner"))}
            [] a = "size" -> {Entry(<<"D", "a">>, 7, File(<<1>>, "t1", "rw", "owner"))}
            [] a = "meta" -> {Entry(<<"D", "a">>, 7, File(<<1, 1>>, "t1", "rwx", ProcUid))}
            [] a = "sym" -> {Entry(<<"D", "a">>, 7, Sym(<<"zz", "zz">>, "t1", "owner"))}
            [] a = "symdiff" -> {Entry(<<"D", "a">>, 7, Sym(<<"b">>, "t2", "owner"))}
            [] a = "dirsame" ->
                 {Entry(<<"D", "a">>, 7, Dir("t1", "rwx", "owner")),
                  Entry(<<"D", "a", "c">>, 11, File(<<2>>, "t2", "rw", "owner"))}
            [] a = "dirdiff" ->
                 {Entry(<<"D", "a">>, 7, Dir("t2", "rwx", "owner")),
                  Entry(<<"D", "a", "c">>, 11, File(<<2>>, "t2", "rw", "owner"))}
            [] OTHER -> {})
    \cup (CASE b = "file1" -> {Entry(<<"D", "b">>, 8, F0)}
            [] b = "file2" -> {Entry(<<"D", "b">>, 8, File(<<1, 1>>, "t2", "rw", "owner"))}
            [] b = "hard" -> {Entry(<<"D", "b">>, 7, F0)}
            [] b = "symrel" -> {Entry(<<"D", "b">>, 8, Sym(<<"a">>, "t2", "owner"))}
            [] OTHER -> {})
    \cup (CASE dd = "dir" ->
                 {Entry(<<"D", "d">>, 9, Dir("t2", "rwx", "owner")),
                  Entry(<<"D", "d", "c">>, 10, File(<<2>>, "t2", "rw", "owner"))}
            [] dd = "dirnest" ->
                 {Entry(<<"D", "d">>, 9, Dir("t2", "rwx", "owner")),
                  Entry(<<"D", "d", "a">>, 12, Dir("t2", "rwx", "owner")),
                  Entry(<<"D", "d", "a", "c">>, 13, File(<<2>>, "t2", "rw", "owner")),
                  Entry(<<"D", "d", "c">>, 10, Dir("t2", "rwx", "owner"))}
            [] dd = "filesame" -> {Entry(<<"D", "d">>, 9, F0)}
            [] dd = "filediff" -> {Entry(<<"D", "d">>, 9, File(<<1, 1>>, "t2", "rw", "owner"))}
            [] OTHER -> {})

Disks ==
    {DiskOf(SrcEntries(sb, "none") \cup DstEntries(a, b, "none")) :
         sb \in SrcBVariants,
         a \in DstAVariants,
         b \in {x \in DstBVariants : x # "hard"}}
    \cup {DiskOf(SrcEntries(sb, "none") \cup DstEntries("same", "hard", "none")) :
         sb \in SrcBVariants}
    \cup {DiskOf(SrcEntries("none", sd) \cup DstEntries(a, b, dd)) :
         sd \in SrcDVariants,
         a \in {"none", "same"},
         b \in {"none", "file1"},
         dd \in DstDVariants}
    \cup {DiskOf(SrcEntries(sb, sd)) : sb \in SrcBVariants, sd \in SrcDVariants}

-----------------------------------------------------------------------------
(* FsSyncer.Sync *)

EmptyMap == [x \in {} |-> x]

NoRes == [shouldUpdateTimes |-> FALSE, hasContentChanged |-> FALSE]

NoCur == [path |-> <<>>, ino |-> 0, info |-> NoInfo, names |-> <<>>,
          dstPath |-> <<>>, target |-> <<>>, replace |-> FALSE, res |-> NoRes,
          sfd |-> 0, fd |-> 0, written |-> 0]

\* one goroutine calls Sync
OneCall == [id |-> 1, saved |-> EmptyMap]

\* New(opts...): every combination of the option functions
Syncers ==
    [checkChecksum : BOOLEAN, preserveOwnership : BOOLEAN, ignoreNotFound : BOOLEAN,
     noCache : BOOLEAN, bufferSize : {CopyBuf}]

\* bufferSize: 512 * 1024
DefaultBufferSize == 512 * 1024

\* the option functions, each applied to the syncer under construction
WithChecksum(s) == [s EXCEPT !.checkChecksum = TRUE]
PreserveOwnership(s) == [s EXCEPT !.preserveOwnership = TRUE]
IgnoreNotFound(s) == [s EXCEPT !.ignoreNotFound = TRUE]
NoCache(s) == [s EXCEPT !.noCache = TRUE]
WithBufferSize(n, s) == [s EXCEPT !.bufferSize = n]

\* an option as it is passed to New: its name, and n for WithBufferSize
Opt(name, n) == [name |-> name, n |-> n]

ApplyOpt(opt, s) ==
    CASE opt.name = "WithChecksum" -> WithChecksum(s)
      [] opt.name = "PreserveOwnership" -> PreserveOwnership(s)
      [] opt.name = "IgnoreNotFound" -> IgnoreNotFound(s)
      [] opt.name = "NoCache" -> NoCache(s)
      [] opt.name = "WithBufferSize" -> WithBufferSize(opt.n, s)

RECURSIVE ApplyOpts(_, _)
ApplyOpts(opts, s) ==
    IF opts = <<>> THEN s ELSE ApplyOpts(Tail(opts), ApplyOpt(Head(opts), s))

\* New(opts...)
New(opts) ==
    ApplyOpts(opts, [checkChecksum |-> FALSE, preserveOwnership |-> FALSE,
                     ignoreNotFound |-> FALSE, noCache |-> FALSE,
                     bufferSize |-> DefaultBufferSize])

\* main: the options the flags -checksum, -preserve-ownership, -no-cache and
\* -buffer-size select
FlagOptions(withChecksum, preserveOwnership, noCache, bufferSize) ==
    (IF withChecksum THEN <<Opt("WithChecksum", 0)>> ELSE <<>>)
    \o (IF preserveOwnership THEN <<Opt("PreserveOwnership", 0)>> ELSE <<>>)
    \o (IF noCache THEN <<Opt("NoCache", 0)>> ELSE <<>>)
    \o (IF bufferSize # 0 THEN <<Opt("WithBufferSize", bufferSize)>> ELSE <<>>)

Main(withChecksum, preserveOwnership, noCache, bufferSize) ==
    New(FlagOptions(withChecksum, preserveOwnership, noCache, bufferSize))

HasChanged(file) == file \in report
ChangeCount == Cardinality(report)

Init ==
    /\ disk \in Disks
    /\ syncer \in Syncers
    /\ pc = "idle"
    /\ src = <<>>
    /\ dst = <<>>
    /\ todo = <<>>
    /\ state = [timesMap |-> EmptyMap, inoMap |-> EmptyMap]
    /\ report = {}
    /\ err = NoErr
    /\ cur = NoCur
    /\ dirsToRemove = <<>>
    /\ pending = {}
    /\ run = 0
    /\ oplog = {}
    /\ pre = disk
    /\ sched = OneCall

\* os.IsNotExist
IsNotExist(e) == e = "ENOENT"

\* the record of the change is left out
MarkChanged_Forgotten(rep, path) == rep

\* report.fileChanges[path] = true
MarkChanged(rep, path) == rep \cup {path}

\* state.timesMap[path] = statTimes{atime, mtime}
ScheduleTimes(timesMap, path, mtime) == (path :> mtime) @@ timesMap

\* the error is kept and the call goes on with Phase B
Fail_GoesOn(e, d, rep, log) ==
    /\ pc' = "walkB"
    /\ err' = e
    /\ disk' = d
    /\ report' = rep
    /\ oplog' = log
    /\ cur' = NoCur
    /\ todo' = <<dst>>
    /\ pending' = {}
    /\ dirsToRemove' = <<>>
    /\ UNCHANGED <<syncer, src, dst, state, run, pre, sched>>

\* a return with an error, from any point of the call
Fail(e, d, rep, log) ==
    /\ pc' = "done"
    /\ err' = e
    /\ disk' = d
    /\ report' = rep
    /\ oplog' = log
    /\ cur' = NoCur
    /\ todo' = <<>>
    /\ pending' = {}
    /\ dirsToRemove' = <<>>
    /\ UNCHANGED <<syncer, src, dst, state, run, pre, sched>>

\* Sync(s, d) is called
Sync_BeginWith(s, d) ==
    /\ err = NoErr
    /\ run < MaxRuns
    /\ state' = [timesMap |-> EmptyMap, inoMap |-> EmptyMap]
    /\ report' = {}
    /\ src' = Clean(s)
    /\ dst' = Clean(d)
    /\ todo' = <<Clean(s)>>
    /\ pc' = "walkA"
    /\ run' = run + 1
    /\ oplog' = {}
    /\ pre' = disk
    /\ dirsToRemove' = <<>>
    /\ pending' = {}
    /\ UNCHANGED <<disk, syncer, err, cur, sched>>

\* Sync is called (again) on the same trees
Sync_Begin ==
    /\ pc \in {"idle", "done"}
    /\ Sync_BeginWith(SrcRoot, DstRoot)

\* syncInfo.SHA1: the digest of what the path opens to (the digest is taken
\* to be collision free: it is the content itself)
SHA1(d, p) ==
    LET o == Open(d, p) IN
    IF o.err # NoErr THEN [err |-> o.err, sum |-> <<>>]
    ELSE IF IsDir(d.inodes[o.fd]) THEN [err |-> "EISDIR", sum |-> <<>>]
    ELSE [err |-> NoErr, sum |-> d.inodes[o.fd].data]

\* the destination is cleared before every replacement
TypeMismatch_Always(s, t) == TRUE

\* the test for a type mismatch
TypeMismatch(s, t) == IsDir(s) # IsDir(t)

\* the modification times are left out of the comparison
SameSizeAndTime_SizeOnly(s, t) == Size(s) = Size(t)

\* the two entries never compare equal
SameSizeAndTime_Never(s, t) == FALSE

\* default mode: same size and same modification time
SameSizeAndTime(s, t) == Size(s) = Size(t) /\ s.mtime = t.mtime

\* syncExistingFile up to the call of syncUnexistingFile on the temporary
\* path: what is left of the disk, and how the function goes on
syncExistingFile(d, checksum, sPath, s, tPath, t) ==
    IF IsDir(s) /\ IsDir(t)
    THEN [err |-> NoErr, disk |-> d, next |-> "return", log |-> {},
          res |-> [shouldUpdateTimes |-> TRUE, hasContentChanged |-> FALSE]]
    ELSE LET rm == IF TypeMismatch(s, t) THEN RemoveAll(d, tPath)
                   ELSE [err |-> NoErr, disk |-> d]
             log == IF TypeMismatch(s, t) THEN {<<"removeall", tPath>>} ELSE {}
             stop(e) == [err |-> e, disk |-> rm.disk, next |-> "return", log |-> log,
                         res |-> NoRes]
             replace == [err |-> NoErr, disk |-> rm.disk, next |-> "replace", log |-> log,
                         res |-> [shouldUpdateTimes |-> FALSE, hasContentChanged |-> TRUE]]
         IN IF rm.err # NoErr THEN stop(rm.err)
            ELSE IF checksum
            THEN LET a == SHA1(rm.disk, sPath)
                     b == SHA1(rm.disk, tPath)
                 IN IF a.err # NoErr THEN stop(a.err)
                    ELSE IF b.err # NoErr THEN stop(b.err)
                    ELSE IF a.sum = b.sum
                    THEN [err |-> NoErr, disk |-> rm.disk, next |-> "return", log |-> log,
                          res |-> [shouldUpdateTimes |-> TRUE, hasContentChanged |-> FALSE]]
                    ELSE replace
            ELSE IF SameSizeAndTime(s, t) THEN stop(NoErr)
            ELSE replace

\* errors.Wrapf(err, ...): nil when err is nil
Wrapf(e) == IF e = NoErr THEN NoErr ELSE e

\* the callback of the walk of the source returns e before it has done
\* anything: on an error Sync returns it, on nil the walk goes on with the
\* names it read from the directory
Return(e, entry) ==
    IF e # NoErr THEN Fail(e, disk, report, oplog)
    ELSE /\ todo' = [k \in 1..Len(entry.names) |-> Append(entry.path, entry.names[k])]
                       \o Tail(todo)
         /\ UNCHANGED <<disk, syncer, pc, src, dst, state, report, err, cur,
                        dirsToRemove, pending, run, oplog, pre, sched>>

\* Phase A: the walk of the source reaches its next entry and calls the
\* callback up to the dispatch on the destination path
WalkA_VisitWith(srcOk, dstOk) ==
    /\ pc = "walkA"
    /\ todo # <<>>
    /\ LET path == Head(todo)
           st == Lstat(disk, path)
           dstPath == Replace(path, src, dst)
           dstStat == Lstat(disk, dstPath)
           entry == [NoCur EXCEPT !.path = path, !.ino = st.ino, !.info = st.info,
                           !.names = IF IsDir(st.info) THEN ReadDirNames(disk, path) ELSE <<>>,
                           !.dstPath = dstPath, !.target = dstPath]
       IN IF st.err # NoErr
          THEN IF IsNotExist(st.err) /\ syncer.ignoreNotFound
               THEN /\ todo' = Tail(todo)
                    /\ UNCHANGED <<disk, syncer, pc, src, dst, state, report, err, cur,
                                   dirsToRemove, pending, run, oplog, pre, sched>>
               ELSE Fail(st.err, disk, report, oplog)
          ELSE IF ~srcOk
          THEN Return(Wrapf(st.err), entry)
          ELSE IF IsNotExist(dstStat.err)
          THEN /\ report' = MarkChanged(report, dstPath)
               /\ cur' = entry
               /\ pc' = "unexisting"
               /\ todo' = Tail(todo)
               /\ UNCHANGED <<disk, syncer, src, dst, state, err, dirsToRemove, pending,
                              run, oplog, pre, sched>>
          ELSE IF dstStat.err # NoErr
          THEN Fail(dstStat.err, disk, report, oplog)
          ELSE IF ~dstOk
          THEN Return(Wrapf(dstStat.err), entry)
          ELSE LET x == syncExistingFile(disk, syncer.checkChecksum, path, st.info,
                                         dstPath, dstStat.info)
               IN IF x.err # NoErr
                  THEN Fail(x.err, x.disk, report, oplog \cup x.log)
                  ELSE /\ disk' = x.disk
                       /\ oplog' = oplog \cup x.log
                       /\ todo' = Tail(todo)
                       /\ IF x.next = "replace"
                          THEN /\ cur' = [entry EXCEPT
                                            !.res = x.res, !.replace = TRUE,
                                            !.target = tmpFileName(Parent(dstPath), Base(dstPath))]
                               /\ pc' = "unexisting"
                          ELSE /\ cur' = [entry EXCEPT !.res = x.res]
                               /\ pc' = "finish"
                       /\ UNCHANGED <<syncer, src, dst, state, report, err, dirsToRemove,
                                      pending, run, pre, sched>>

\* the callback where info.Sys() and dstStat.Sys() are *syscall.Stat_t, as on
\* the platforms the package builds for
WalkA_Visit ==
    /\ pc = "walkA"
    /\ WalkA_VisitWith(TRUE, TRUE)

\* the callback on a platform whose FileInfo.Sys() is of another type, for the
\* source entry or for the destination entry
WalkA_VisitNoSysStat ==
    /\ pc = "walkA"
    /\ \E srcOk, dstOk \in BOOLEAN : ~(srcOk /\ dstOk) /\ WalkA_VisitWith(srcOk, dstOk)

\* the target is rewritten only when it starts with the source root
LinkTarget_PrefixOnly(linkDst, srcBase, dstBase) ==
    IF IsPrefix(srcBase, linkDst)
    THEN dstBase \o SubSeq(linkDst, Len(srcBase) + 1, Len(linkDst))
    ELSE linkDst

\* the rewrite of a symbolic link's target
LinkTarget(linkDst, srcBase, dstBase) ==
    IF Contains(linkDst, srcBase) THEN Replace(linkDst, srcBase, dstBase) ELSE linkDst

\* an entry of inoMap, once written, is left as it is
RecordIno_Once(inoMap, ino, path) ==
    IF ino \in DOMAIN inoMap THEN inoMap ELSE (ino :> path) @@ inoMap

\* state.inoMap[src.stat.Ino] = dst.path
RecordIno(inoMap, ino, path) == (ino :> path) @@ inoMap

\* the temporary entry is left where it was built
AfterUnexisting_NoRename == "finish"

\* where syncUnexistingFile returns to
AfterUnexisting == IF cur.replace THEN "rename" ELSE "finish"

\* syncUnexistingFile on cur.target, up to the start of the copy loop
Unexisting ==
    /\ pc = "unexisting"
    /\ IF cur.ino \in DOMAIN state.inoMap
       THEN LET l == Link(disk, state.inoMap[cur.ino], cur.target) IN
            IF l.err # NoErr THEN Fail(l.err, disk, report, oplog)
            ELSE /\ disk' = l.disk
                 /\ oplog' = oplog \cup {<<"link", cur.target>>}
                 /\ cur' = [cur EXCEPT !.res.shouldUpdateTimes = FALSE]
                 /\ pc' = AfterUnexisting
                 /\ UNCHANGED <<syncer, src, dst, todo, state, report, err, dirsToRemove,
                                pending, run, pre, sched>>
       ELSE IF IsDir(cur.info)
       THEN LET m == MkdirAll(disk, cur.target, cur.info.mode) IN
            IF m.err # NoErr THEN Fail(m.err, disk, report, oplog)
            ELSE /\ disk' = m.disk
                 /\ oplog' = oplog \cup {<<"mkdir", cur.target>>}
                 /\ state' = [state EXCEPT !.inoMap = RecordIno(@, cur.ino, cur.target)]
                 /\ cur' = [cur EXCEPT !.res.shouldUpdateTimes = TRUE]
                 /\ pc' = AfterUnexisting
                 /\ UNCHANGED <<syncer, src, dst, todo, report, err, dirsToRemove,
                                pending, run, pre, sched>>
       ELSE IF IsSymlink(cur.info)
       THEN LET r == Readlink(disk, cur.path)
                y == Symlink(disk, LinkTarget(r.target, src, dst), cur.target)
            IN IF r.err # NoErr THEN Fail(r.err, disk, report, oplog)
               ELSE IF y.err # NoErr THEN Fail(y.err, disk, report, oplog)
               ELSE /\ disk' = y.disk
                    /\ oplog' = oplog \cup {<<"symlink", cur.target>>}
                    /\ state' = [state EXCEPT !.inoMap = RecordIno(@, cur.ino, cur.target)]
                    /\ cur' = [cur EXCEPT !.res.shouldUpdateTimes = FALSE]
                    /\ pc' = AfterUnexisting
                    /\ UNCHANGED <<syncer, src, dst, todo, report, err, dirsToRemove,
                                   pending, run, pre, sched>>
       ELSE LET o == Open(disk, cur.path)
                w == OpenFile(disk, cur.target, cur.info.mode)
            IN IF o.err # NoErr THEN Fail(o.err, disk, report, oplog)
               ELSE IF w.err # NoErr THEN Fail(w.err, disk, report, oplog)
               ELSE /\ disk' = w.disk
                    /\ oplog' = oplog \cup {<<"open", cur.target>>}
                    /\ state' = [state EXCEPT !.inoMap = RecordIno(@, cur.ino, cur.target)]
                    /\ cur' = [cur EXCEPT !.sfd = o.fd, !.fd = w.fd, !.written = 0]
                    /\ pc' = "copy"
                    /\ UNCHANGED <<syncer, src, dst, todo, report, err, dirsToRemove,
                                   pending, run, pre, sched>>

\* the advisories one iteration of the copy loop issues
\* unix.Fadvise(fd, offset, length, FADV_DONTNEED) is called with written as
\* the offset and written+nr (written+nw) as the length; what it returns is
\* dropped. An entry is <<"fadvise", path, offset, length>>.
Fadvise(noCache, p, q, written, nr, nw) ==
    (IF noCache /\ nr > 0 THEN {<<"fadvise", p, written, written + nr>>} ELSE {})
    \cup (IF noCache /\ nw > 0 THEN {<<"fadvise", q, written, written + nw>>} ELSE {})

\* copyContent: one iteration of the loop; a read of no byte into a buffer
\* that has room is the end of the input and ends copyFileContent, which
\* closes both descriptors; a read into a buffer of length 0 returns 0 and no
\* error, and the loop goes round again
Copy ==
    /\ pc = "copy"
    /\ LET buf == ReadAt(disk, cur.sfd, cur.written, syncer.bufferSize) IN
       IF syncer.bufferSize = 0
       THEN UNCHANGED vars
       ELSE IF Len(buf) > 0
       THEN /\ disk' = WriteAt(disk, cur.fd, cur.written, buf)
            /\ cur' = [cur EXCEPT !.written = @ + Len(buf)]
            /\ oplog' = oplog \cup {<<"write", cur.target>>}
                              \cup Fadvise(syncer.noCache, cur.path, cur.target, cur.written,
                                      Len(buf), Len(buf))
            /\ UNCHANGED <<syncer, pc, src, dst, todo, state, report, err, dirsToRemove,
                           pending, run, pre, sched>>
       ELSE /\ cur' = [cur EXCEPT !.res.shouldUpdateTimes = TRUE, !.sfd = 0, !.fd = 0]
            /\ pc' = AfterUnexisting
            /\ UNCHANGED <<disk, syncer, src, dst, todo, state, report, err, dirsToRemove,
                           pending, run, oplog, pre, sched>>

\* syncExistingFile, once the new entry is ready at the temporary path
Replace_Rename ==
    /\ pc = "rename"
    /\ LET r == Rename(disk, cur.target, cur.dstPath) IN
       IF r.err # NoErr THEN Fail(r.err, disk, report, oplog)
       ELSE /\ disk' = r.disk
            /\ oplog' = oplog \cup {<<"rename", cur.dstPath>>}
            /\ state' = [state EXCEPT !.inoMap = RecordIno(@, cur.ino, cur.dstPath)]
            /\ pc' = "finish"
            /\ UNCHANGED <<syncer, src, dst, todo, report, err, cur, dirsToRemove,
                           pending, run, pre, sched>>

\* the end of the Phase A callback: times scheduled, report, ownership; the
\* walk then descends into the names it read from a directory
Finish ==
    /\ pc = "finish"
    /\ LET times == IF cur.res.shouldUpdateTimes
                    THEN ScheduleTimes(state.timesMap, cur.dstPath, cur.info.mtime)
                    ELSE state.timesMap
           rep == IF cur.res.hasContentChanged THEN MarkChanged(report, cur.dstPath) ELSE report
           c == IF syncer.preserveOwnership THEN Chown(disk, cur.dstPath, cur.info.uid)
                ELSE [err |-> NoErr, disk |-> disk]
           log == IF syncer.preserveOwnership THEN oplog \cup {<<"chown", cur.dstPath>>}
                  ELSE oplog
       IN IF c.err # NoErr THEN Fail(c.err, disk, rep, oplog)
          ELSE /\ disk' = c.disk
               /\ oplog' = log
               /\ state' = [state EXCEPT !.timesMap = times]
               /\ report' = rep
               /\ todo' = [k \in 1..Len(cur.names) |-> Append(cur.path, cur.names[k])] \o todo
               /\ cur' = NoCur
               /\ pc' = "walkA"
               /\ UNCHANGED <<syncer, src, dst, err, dirsToRemove, pending, run, pre, sched>>

\* the times set straight after the walk of the source, Phase B left out
WalkA_End_TimesNext ==
    /\ pc = "walkA"
    /\ todo = <<>>
    /\ pc' = "times"
    /\ pending' = DOMAIN state.timesMap
    /\ UNCHANGED <<disk, syncer, src, dst, todo, state, report, err, cur, dirsToRemove,
                   run, oplog, pre, sched>>

\* the walk of the source returned nil: Phase B starts
WalkA_End ==
    /\ pc = "walkA"
    /\ todo = <<>>
    /\ pc' = "walkB"
    /\ todo' = <<dst>>
    /\ dirsToRemove' = <<>>
    /\ UNCHANGED <<disk, syncer, src, dst, state, report, err, cur, pending, run, oplog, pre, sched>>

\* Phase B: the walk of the destination reaches its next entry
WalkB_Visit ==
    /\ pc = "walkB"
    /\ todo # <<>>
    /\ LET path == Head(todo)
           st == Lstat(disk, path)
           srcPath == Replace(path, dst, src)
           srcStat == Lstat(disk, srcPath)
           names == IF IsDir(st.info) THEN ReadDirNames(disk, path) ELSE <<>>
           below == [k \in 1..Len(names) |-> Append(path, names[k])]
           rm == Remove(disk, path)
       IN IF st.err # NoErr THEN Fail(st.err, disk, report, oplog)
          ELSE IF ~IsNotExist(srcStat.err)
          THEN /\ todo' = below \o Tail(todo)
               /\ UNCHANGED <<disk, syncer, pc, src, dst, state, report, err, cur,
                              dirsToRemove, pending, run, oplog, pre, sched>>
          ELSE IF IsDir(st.info)
          THEN /\ report' = MarkChanged(report, path)
               /\ dirsToRemove' = Append(dirsToRemove, path)
               /\ todo' = below \o Tail(todo)
               /\ UNCHANGED <<disk, syncer, pc, src, dst, state, err, cur, pending, run,
                              oplog, pre, sched>>
          ELSE IF rm.err # NoErr THEN Fail(rm.err, disk, MarkChanged(report, path), oplog)
          ELSE /\ report' = MarkChanged(report, path)
               /\ disk' = rm.disk
               /\ oplog' = oplog \cup {<<"remove", path>>}
               /\ todo' = Tail(todo)
               /\ UNCHANGED <<syncer, pc, src, dst, state, err, cur, dirsToRemove,
                              pending, run, pre, sched>>

\* the walk of the destination returned nil
WalkB_End ==
    /\ pc = "walkB"
    /\ todo = <<>>
    /\ pc' = "rmdirs"
    /\ UNCHANGED <<disk, syncer, src, dst, todo, state, report, err, cur, dirsToRemove,
                   pending, run, oplog, pre, sched>>

\* the directories taken in the order of the walk
NextDirToRemove_Forward(dirs) == dirs[1]

\* for i := len(dirsToRemove) - 1; i >= 0; i--
NextDirToRemove(dirs) == dirs[Len(dirs)]
RestDirsToRemove(dirs) == SubSeq(dirs, 1, Len(dirs) - 1)

\* the loop over dirsToRemove, from its last element down
RemoveDir ==
    /\ pc = "rmdirs"
    /\ dirsToRemove # <<>>
    /\ LET dir == NextDirToRemove(dirsToRemove)
           rm == Remove(disk, dir)
       IN IF rm.err # NoErr THEN Fail(rm.err, disk, report, oplog)
          ELSE /\ disk' = rm.disk
               /\ oplog' = oplog \cup {<<"remove", dir>>}
               /\ dirsToRemove' = RestDirsToRemove(dirsToRemove)
               /\ UNCHANGED <<syncer, pc, src, dst, todo, state, report, err, cur,
                              pending, run, pre, sched>>

\* Phase C starts: range over timesMap
RemoveDirs_End ==
    /\ pc = "rmdirs"
    /\ dirsToRemove = <<>>
    /\ pc' = "times"
    /\ pending' = DOMAIN state.timesMap
    /\ UNCHANGED <<disk, syncer, src, dst, todo, state, report, err, cur, dirsToRemove,
                   run, oplog, pre, sched>>

\* Phase C: one iteration, on any remaining key (the order of a map range
\* is not specified)
SetTimes ==
    /\ pc = "times"
    /\ \E file \in pending :
         LET c == Chtimes(disk, file, state.timesMap[file]) IN
         IF c.err # NoErr /\ ~(IsNotExist(c.err) /\ syncer.ignoreNotFound)
         THEN Fail(c.err, disk, report, oplog)
         ELSE /\ disk' = c.disk
              /\ oplog' = oplog \cup {<<"chtimes", file>>}
              /\ pending' = pending \ {file}
              /\ UNCHANGED <<syncer, pc, src, dst, todo, state, report, err, cur,
                             dirsToRemove, run, pre, sched>>

\* return report, nil
Sync_Return ==
    /\ pc = "times"
    /\ pending = {}
    /\ pc' = "done"
    /\ UNCHANGED <<disk, syncer, src, dst, todo, state, report, err, cur, dirsToRemove,
                   pending, run, oplog, pre, sched>>

Next ==
    \/ Sync_Begin
    \/ WalkA_Visit
    \/ Unexisting
    \/ Copy
    \/ Replace_Rename
    \/ Finish
    \/ WalkA_End
    \/ WalkB_Visit
    \/ WalkB_End
    \/ RemoveDir
    \/ RemoveDirs_End
    \/ SetTimes
    \/ Sync_Return

Spec == Init /\ [][Next]_vars

-----------------------------------------------------------------------------
(* The copy scenarios: files of every length up to MaxLen, copied by the   *)
(* syncers that New and main build with and without a buffer size          *)

\* a file content of n bytes, all different
Bytes(n) == [k \in 1..n |-> k]

CopyDstVariants == {"none", "empty", "longer", "extraneous"}

CopySrcEntries(n) ==
    {Entry(<<"S">>, 1, Dir("t1", "rwx", "owner")),
     Entry(<<"S", "a">>, 2, File(Bytes(n), "t1", "rw", "owner"))}

CopyDstEntries(v) ==
    CASE v = "empty" -> DstEntries("none", "none", "none")
      [] v = "longer" ->
             {Entry(<<"D">>, 6, Dir("t0", "rwx", "owner")),
              Entry(<<"D", "a">>, 7, File([k \in 1..(MaxLen + 1) |-> 0], "t2", "rw", "owner"))}
      [] v = "extraneous" -> DstEntries("none", "file1", "dir")
      [] OTHER -> {}

CopyDisks ==
    {DiskOf(CopySrcEntries(n) \cup CopyDstEntries(v)) : n \in 0..MaxLen, v \in CopyDstVariants}

\* the option lists passed to New
OptionLists ==
    {<<>>, <<Opt("WithChecksum", 0)>>, <<Opt("PreserveOwnership", 0), Opt("IgnoreNotFound", 0)>>}
    \cup {<<Opt("WithBufferSize", n)>> : n \in 0..MaxBuf}
    \cup {<<Opt("NoCache", 0), Opt("WithBufferSize", n)>> : n \in 0..MaxBuf}

BuiltSyncers ==
    {New(opts) : opts \in OptionLists}
    \cup {Main(FALSE, FALSE, nc, n) : nc \in BOOLEAN, n \in 0..MaxBuf}

InitCopy ==
    /\ disk \in CopyDisks
    /\ syncer \in BuiltSyncers
    /\ pc = "idle"
    /\ src = <<>>
    /\ dst = <<>>
    /\ todo = <<>>
    /\ state = [timesMap |-> EmptyMap, inoMap |-> EmptyMap]
    /\ report = {}
    /\ err = NoErr
    /\ cur = NoCur
    /\ dirsToRemove = <<>>
    /\ pending = {}
    /\ run = 0
    /\ oplog = {}
    /\ pre = disk
    /\ sched = OneCall

SpecCopy == InitCopy /\ [][Next]_vars

\* Sync runs in one goroutine with nothing to wait for: a step that can be
\* taken is taken
SpecCopyFair == SpecCopy /\ WF_vars(Next)

-----------------------------------------------------------------------------
(* Vocabulary of the properties *)

Returned == pc = "done"
ReturnedNil == pc = "done" /\ err = NoErr

InDst(q) == IsPrefix(DstRoot, q)
InSrc(p) == IsPrefix(SrcRoot, p)
ToSrc(q) == SrcRoot \o SubSeq(q, Len(DstRoot) + 1, Len(q))
ToDst(p) == DstRoot \o SubSeq(p, Len(SrcRoot) + 1, Len(p))

Exists(d, p) == p \in DOMAIN d.names
InodeAt(d, p) == d.inodes[d.names[p]]

SrcPaths == {p \in DOMAIN disk.names : InSrc(p)}
DstPaths == {q \in DOMAIN disk.names : InDst(q)}
PreDstPaths == {q \in DOMAIN pre.names : InDst(q)}

\* a destination entry the call found with no source counterpart
Extraneous(q) == q \in PreDstPaths /\ ~Exists(pre, ToSrc(q))

\* no destination entry is a directory where the source has another kind of
\* entry, nor the converse
KindsAgree ==
    \A q \in PreDstPaths :
        Exists(pre, ToSrc(q)) => (IsDir(InodeAt(pre, q)) <=> IsDir(InodeAt(pre, ToSrc(q))))

\* q went away with a subtree that Phase A removed on a type mismatch
RemovedWithSubtree(q) == \E r \in PreDstPaths : <<"removeall", r>> \in oplog /\ IsPrefix(r, q)

-----------------------------------------------------------------------------
(* A concurrent process that removes a source entry during the call *)

\* the source entries the walk has listed and not finished with
ListedInWalk == {todo[k] : k \in 1..Len(todo)} \cup {cur.path}

\* no source entry has gone since Sync was called
SourceIntact == \A x \in DOMAIN pre.names : InSrc(x) => Exists(disk, x)

\* the names at and below p are unlinked; a descriptor open on the file keeps
\* its content readable
Unlinked(d, p) ==
    Touch([d EXCEPT !.names = [q \in {x \in DOMAIN d.names : ~IsPrefix(p, x)} |-> d.names[q]]],
          Parent(p))

Vanish ==
    /\ pc \in {"walkA", "unexisting", "copy"}
    /\ SourceIntact
    /\ \E p \in SrcPaths \cap ListedInWalk :
           /\ p # src
           /\ disk' = Unlinked(disk, p)
    /\ UNCHANGED <<syncer, pc, src, dst, todo, state, report, err, cur, dirsToRemove,
                   pending, run, oplog, pre, sched>>

NextRace ==
    \/ Next
    \/ Vanish

SpecRace == Init /\ [][NextRace]_vars

\* a concurrent process removes a destination entry that the walk of the
\* destination has listed and not visited yet
VanishDst ==
    /\ pc = "walkB"
    /\ \E q \in DstPaths \cap {todo[k] : k \in 1..Len(todo)} :
           /\ q # dst
           /\ disk' = Unlinked(disk, q)
    /\ UNCHANGED <<syncer, pc, src, dst, todo, state, report, err, cur, dirsToRemove,
                   pending, run, oplog, pre, sched>>

NextAbort ==
    \/ NextRace
    \/ VanishDst

SpecAbort == Init /\ [][NextAbort]_vars

-----------------------------------------------------------------------------
(* A platform that does not give the detailed metadata of an entry *)

\* the trees synced on such a platform: files and directories to create, to
\* replace and to delete
PlatformDisks ==
    {DiskOf(SrcEntries("none", sd) \cup DstEntries(a, b, dd)) :
         sd \in {"none", "dirfile"}, a \in {"none", "same"}, b \in {"none", "file1"},
         dd \in {"none", "dir", "dirnest", "filediff"}}

InitPlatform == Init /\ disk \in PlatformDisks

NextPlatform ==
    \/ Next
    \/ WalkA_VisitNoSysStat

SpecPlatform == InitPlatform /\ [][NextPlatform]_vars

-----------------------------------------------------------------------------
(* Trees with symbolic links that lead out of them *)

\* a file beside the two trees, owned by another user
OutsideEntries ==
    {Entry(<<"O">>, 14, Dir("t1", "rwx", ProcUid)),
     Entry(<<"O", "a">>, 15, File(<<1, 1>>, "t1", "rw", ProcUid))}

\* the source has a symbolic link b to the outside file or to its own file a;
\* the destination has no b, or a symbolic link b to the outside file or into
\* the source tree
OutwardDisks ==
    {DiskOf({Entry(<<"S">>, 1, Dir("t1", "rwx", "owner")), Entry(<<"S", "a">>, 2, F0),
             Entry(<<"S", "b">>, 3, Sym(sb, "t2", "owner"))}
            \cup DstEntries(a, "none", "none")
            \cup (IF db = <<>> THEN {} ELSE {Entry(<<"D", "b">>, 8, Sym(db, "t2", "owner"))})
            \cup OutsideEntries) :
         sb \in {<<"O", "a">>, <<"a">>}, a \in {"none", "same"},
         db \in {<<>>, <<"O", "a">>, <<"S", "a">>}}

InitOutward ==
    /\ disk \in OutwardDisks \cup PlatformDisks
    /\ syncer \in Syncers
    /\ pc = "idle"
    /\ src = <<>>
    /\ dst = <<>>
    /\ todo = <<>>
    /\ state = [timesMap |-> EmptyMap, inoMap |-> EmptyMap]
    /\ report = {}
    /\ err = NoErr
    /\ cur = NoCur
    /\ dirsToRemove = <<>>
    /\ pending = {}
    /\ run = 0
    /\ oplog = {}
    /\ pre = disk
    /\ sched = OneCall

SpecOutward == InitOutward /\ [][Next]_vars

-----------------------------------------------------------------------------
(* Sync called with a source root that may not exist *)

\* destination trees with no source tree beside them
NoSourceDisks ==
    {DiskOf(DstEntries(a, b, dd)) :
         a \in {"none", "same"}, b \in {"none", "file1"}, dd \in {"none", "dir", "dirnest"}}

InitRoots ==
    /\ disk \in NoSourceDisks \cup PlatformDisks
    /\ syncer \in Syncers
    /\ pc = "idle"
    /\ src = <<>>
    /\ dst = <<>>
    /\ todo = <<>>
    /\ state = [timesMap |-> EmptyMap, inoMap |-> EmptyMap]
    /\ report = {}
    /\ err = NoErr
    /\ cur = NoCur
    /\ dirsToRemove = <<>>
    /\ pending = {}
    /\ run = 0
    /\ oplog = {}
    /\ pre = disk
    /\ sched = OneCall

SpecRoots == InitRoots /\ [][Next]_vars

-----------------------------------------------------------------------------
(* C1: after a Sync that returns no error, no entry is left in the         *)
(* destination tree whose corresponding source path does not exist, and    *)
(* every extraneous entry Phase B deleted is reported as changed.          *)

C1_ExtraneousDeleted ==
    ReturnedNil =>
        /\ \A q \in DstPaths : Exists(disk, ToSrc(q))
        /\ \A q \in PreDstPaths :
               Extraneous(q) =>
                   /\ ~Exists(disk, q)
                   /\ HasChanged(q) \/ RemovedWithSubtree(q)
        /\ \A q \in PreDstPaths : <<"remove", q>> \in oplog => HasChanged(q)

\* an extraneous directory with a child, and an extraneous plain file, are gone
C1_Witness ==
    /\ ReturnedNil
    /\ \E q \in PreDstPaths :
           /\ Extraneous(q) /\ KindAt(pre, q) = "dir" /\ Children(pre, q) # {}
           /\ ~Exists(disk, q) /\ HasChanged(q) /\ <<"remove", q>> \in oplog
    /\ \E q \in PreDstPaths :
           /\ Extraneous(q) /\ KindAt(pre, q) = "file" /\ Len(q) = Len(DstRoot) + 1
           /\ ~Exists(disk, q) /\ HasChanged(q)

-----------------------------------------------------------------------------
(* C2: after a Sync that returns no error, every source entry has a        *)
(* destination counterpart of the same kind with the same mode bits,       *)
(* whatever the destination held before.  Stated for the calls that find  *)
(* no directory in the place of another kind of entry (that case is C10).  *)

SameKindAndMode(p) ==
    /\ Exists(disk, ToDst(p))
    /\ InodeAt(disk, ToDst(p)).kind = InodeAt(disk, p).kind
    /\ InodeAt(disk, ToDst(p)).mode = InodeAt(disk, p).mode

C2_KindAndModeMirrored ==
    (ReturnedNil /\ KindsAgree) => \A p \in SrcPaths : SameKindAndMode(p)

-----------------------------------------------------------------------------
(* C3: after a Sync that returns no error, the destination counterpart of  *)
(* every source entry that is not a symbolic link has the source's         *)
(* modification time and, for a regular file, the source's size.  Stated   *)
(* for the calls that find no directory in the place of another kind of    *)
(* entry (that case is C10).                                               *)

SameTimeAndSize(p) ==
    /\ Exists(disk, ToDst(p))
    /\ InodeAt(disk, ToDst(p)).mtime = InodeAt(disk, p).mtime
    /\ InodeAt(disk, p).kind = "file" => Size(InodeAt(disk, ToDst(p))) = Size(InodeAt(disk, p))

C3_TimesRestored ==
    (ReturnedNil /\ KindsAgree) => \A p \in SrcPaths : ~IsSymlink(InodeAt(disk, p)) => SameTimeAndSize(p)

-----------------------------------------------------------------------------
(* C4: if two source files share an inode then, after a Sync that returns  *)
(* no error, their destination counterparts share one inode and the        *)
(* content was copied at most once, for a destination that held neither,   *)
(* one or both of them as regular files before the call.                   *)

\* the paths at which the call opened a file to copy the content of p
CopiesFor(p) ==
    {t \in {ToDst(p), tmpFileName(Parent(ToDst(p)), Base(ToDst(p)))} : <<"open", t>> \in oplog}

HardlinkedPair(a, b) ==
    /\ a # b
    /\ disk.names[a] = disk.names[b]
    /\ InodeAt(disk, a).kind = "file"

\* before the call the destination held nothing, or a regular file, at q
AbsentOrFile(q) == Exists(pre, q) => KindAt(pre, q) = "file"

C4_HardlinksPreserved ==
    ReturnedNil =>
        \A a, b \in SrcPaths :
            (HardlinkedPair(a, b) /\ AbsentOrFile(ToDst(a)) /\ AbsentOrFile(ToDst(b))) =>
                /\ Exists(disk, ToDst(a)) /\ Exists(disk, ToDst(b))
                /\ disk.names[ToDst(a)] = disk.names[ToDst(b)]
                /\ Cardinality(CopiesFor(a) \cup CopiesFor(b)) <= 1

-----------------------------------------------------------------------------
(* C5: a second Sync of the same trees, the source not having changed,     *)
(* reports no change, in default mode and in checksum mode.  Stated for    *)
(* the second runs that find a counterpart of every source entry.          *)

\* the call found a destination entry for every source entry
FoundAllCounterparts == \A p \in SrcPaths : Exists(pre, ToDst(p))

C5_Idempotent == (ReturnedNil /\ run >= 2 /\ FoundAllCounterparts) => ChangeCount = 0

-----------------------------------------------------------------------------
(* C6: while Sync replaces an existing destination entry, the destination  *)
(* path shows the old entry whole or the new entry whole, never a          *)
(* partially written file, and the temporary path is renamed over it only  *)
(* once the new entry is complete there.                                    *)

\* syncExistingFile is between its decision to replace and its rename
Replacing == cur.replace /\ pc \in {"unexisting", "copy", "rename"}

\* syncExistingFile has renamed the temporary path over the destination
Replaced == cur.replace /\ pc = "finish"

\* q holds what it held when Sync was called
OldAt(q) ==
    /\ Exists(pre, q) /\ Exists(disk, q)
    /\ disk.names[q] = pre.names[q]
    /\ InodeAt(disk, q).kind = InodeAt(pre, q).kind
    /\ InodeAt(disk, q).data = InodeAt(pre, q).data

\* q holds the whole of the source entry the callback is at
NewAt(q) ==
    /\ Exists(disk, q)
    /\ InodeAt(disk, q).kind = cur.info.kind
    /\ cur.info.kind = "file" => InodeAt(disk, q).data = cur.info.data
    /\ cur.info.kind = "symlink" => InodeAt(disk, q).data = LinkTarget(cur.info.data, src, dst)
    /\ cur.info.kind = "file" => InodeAt(disk, q).mode = cur.info.mode

\* the destination entry being replaced is a directory where the source is not,
\* or the converse: its subtree was removed before the new entry is built
ReplacingOtherKind == Exists(pre, cur.dstPath) /\ IsDir(InodeAt(pre, cur.dstPath)) # IsDir(cur.info)

RenameAfterComplete == (cur.replace /\ pc = "rename") => NewAt(cur.target)

\* C6 as stated: old or new at every instant of a replacement
C6_OldOrNew ==
    /\ (Replacing \/ Replaced) => (OldAt(cur.dstPath) \/ NewAt(cur.dstPath))
    /\ RenameAfterComplete

\* C6, amended: old or new when both entries are directories or both are not;
\* when a directory stands for another kind of entry the path is absent from
\* the removal of the old subtree to the rename; in both cases never a
\* partially written file, and the rename comes after the complete copy.
C6_AtomicReplace ==
    /\ Replacing => IF ReplacingOtherKind THEN ~Exists(disk, cur.dstPath)
                    ELSE OldAt(cur.dstPath)
    /\ Replaced => NewAt(cur.dstPath)
    /\ RenameAfterComplete

\* a regular file of several blocks is complete at the temporary path while
\* the destination path still holds the old, different content
C6_Witness ==
    /\ cur.replace /\ pc = "rename"
    /\ cur.info.kind = "file" /\ cur.written > syncer.bufferSize
    /\ ~ReplacingOtherKind
    /\ OldAt(cur.dstPath) /\ InodeAt(disk, cur.dstPath).data # cur.info.data
    /\ NewAt(cur.target)
    /\ <<"write", cur.target>> \in oplog

-----------------------------------------------------------------------------
(* C7: in default mode, when the source and destination entries at a path  *)
(* are both non-directories and differ in size or in modification time,    *)
(* Sync replaces the destination with the source's content, reports the    *)
(* path as changed and leaves it with the source's modification time.      *)

\* p and its counterpart were non-directories of other size or time
DifferInSizeOrTime(p) ==
    /\ Exists(pre, p) /\ Exists(pre, ToDst(p))
    /\ ~IsDir(InodeAt(pre, p)) /\ ~IsDir(InodeAt(pre, ToDst(p)))
    /\ \/ Size(InodeAt(pre, p)) # Size(InodeAt(pre, ToDst(p)))
       \/ InodeAt(pre, p).mtime # InodeAt(pre, ToDst(p)).mtime

\* the counterpart of p was replaced by the source's content, and reported
ReplacedBySource(p) ==
    /\ Exists(disk, ToDst(p))
    /\ InodeAt(disk, ToDst(p)).kind = InodeAt(disk, p).kind
    /\ InodeAt(disk, p).kind = "file" => InodeAt(disk, ToDst(p)).data = InodeAt(disk, p).data
    /\ InodeAt(disk, p).kind = "symlink" =>
           InodeAt(disk, ToDst(p)).data = LinkTarget(InodeAt(disk, p).data, src, dst)
    /\ disk.names[ToDst(p)] # pre.names[ToDst(p)]
    /\ <<"rename", ToDst(p)>> \in oplog
    /\ HasChanged(ToDst(p))

HasSourceTime(p) == InodeAt(disk, ToDst(p)).mtime = InodeAt(disk, p).mtime

\* C7 as stated, for every kind of non-directory source entry
C7_ChangeDetected ==
    (ReturnedNil /\ ~syncer.checkChecksum) =>
        \A p \in SrcPaths : DifferInSizeOrTime(p) => (ReplacedBySource(p) /\ HasSourceTime(p))

\* C7, amended: the replacement and the report hold for every non-directory
\* source entry; the modification time is the source's when the source entry
\* is a regular file (no time is scheduled for a symbolic link).
C7_ChangeDetectedFiles ==
    (ReturnedNil /\ ~syncer.checkChecksum) =>
        \A p \in SrcPaths :
            DifferInSizeOrTime(p) =>
                /\ ReplacedBySource(p)
                /\ InodeAt(disk, p).kind = "file" => HasSourceTime(p)

\* a destination file with the source's content and another modification time
\* was replaced, and one replaced by a symbolic link was too
C7_Witness ==
    /\ ReturnedNil /\ ~syncer.checkChecksum
    /\ \E p \in SrcPaths :
           /\ DifferInSizeOrTime(p)
           /\ InodeAt(pre, p).kind = "file" /\ InodeAt(pre, ToDst(p)).kind = "file"
           /\ InodeAt(pre, p).data = InodeAt(pre, ToDst(p)).data
           /\ ReplacedBySource(p) /\ HasSourceTime(p)
    /\ \E p \in SrcPaths :
           /\ DifferInSizeOrTime(p) /\ InodeAt(pre, p).kind = "symlink"
           /\ ReplacedBySource(p)

-----------------------------------------------------------------------------
(* C8: in checksum mode, when the source and destination files at a path   *)
(* have the same content and other modification times, the destination     *)
(* content is not rewritten and the path is not reported, and after Sync   *)
(* the destination has the source's modification time.                     *)

\* p and its counterpart were regular files of the same content, other times
SameContentOtherTime(p) ==
    /\ Exists(pre, p) /\ Exists(pre, ToDst(p))
    /\ InodeAt(pre, p).kind = "file" /\ InodeAt(pre, ToDst(p)).kind = "file"
    /\ InodeAt(pre, p).data = InodeAt(pre, ToDst(p)).data
    /\ InodeAt(pre, p).mtime # InodeAt(pre, ToDst(p)).mtime

\* nothing was written, linked or renamed at q or at its temporary path
NotRewritten(q) ==
    /\ Exists(disk, q) /\ disk.names[q] = pre.names[q]
    /\ InodeAt(disk, q).data = InodeAt(pre, q).data
    /\ \A op \in {"open", "write", "link", "symlink", "mkdir", "rename", "removeall", "remove"} :
           /\ <<op, q>> \notin oplog
           /\ <<op, tmpFileName(Parent(q), Base(q))>> \notin oplog

C8_ChecksumNoop ==
    (ReturnedNil /\ syncer.checkChecksum) =>
        \A p \in SrcPaths :
            SameContentOtherTime(p) =>
                /\ NotRewritten(ToDst(p))
                /\ ~HasChanged(ToDst(p))
                /\ HasSourceTime(p)

-----------------------------------------------------------------------------
(* C9: in default mode, when the source and destination non-directory      *)
(* entries at a path have the same size and the same modification time,    *)
(* Sync does nothing to the destination entry (no write, no rename, no     *)
(* time change, no ownership change) and does not report it, whatever the  *)
(* other options.                                                          *)

\* p and its counterpart were non-directories of the same size and time
SameInSizeAndTime(p) ==
    /\ Exists(pre, p) /\ Exists(pre, ToDst(p))
    /\ ~IsDir(InodeAt(pre, p)) /\ ~IsDir(InodeAt(pre, ToDst(p)))
    /\ Size(InodeAt(pre, p)) = Size(InodeAt(pre, ToDst(p)))
    /\ InodeAt(pre, p).mtime = InodeAt(pre, ToDst(p)).mtime

\* content, mode and times of q are those of before the call; not reported
Skipped(q) ==
    /\ NotRewritten(q)
    /\ <<"chtimes", q>> \notin oplog
    /\ q \notin DOMAIN state.timesMap
    /\ InodeAt(disk, q).mtime = InodeAt(pre, q).mtime
    /\ InodeAt(disk, q).mode = InodeAt(pre, q).mode
    /\ ~HasChanged(q)

OwnerUntouched(q) ==
    /\ <<"chown", q>> \notin oplog
    /\ InodeAt(disk, q).uid = InodeAt(pre, q).uid

-----------------------------------------------------------------------------
(* C10: in default mode, when the destination path is a directory and the  *)
(* source path a regular file, or the converse, then whatever their sizes  *)
(* and times, after Sync the destination has the source's kind and         *)
(* content, the old destination subtree is gone and the path is reported.  *)

\* one of p and its counterpart was a directory, the other a regular file
DirAgainstFile(p) ==
    /\ Exists(pre, p) /\ Exists(pre, ToDst(p))
    /\ {InodeAt(pre, p).kind, InodeAt(pre, ToDst(p)).kind} = {"dir", "file"}

\* the entries the old destination entry had below it
OldSubtree(q) == {r \in PreDstPaths : r # q /\ IsPrefix(q, r)}

C10_TypeReplaced ==
    (ReturnedNil /\ ~syncer.checkChecksum) =>
        \A p \in SrcPaths :
            DirAgainstFile(p) =>
                /\ Exists(disk, ToDst(p))
                /\ InodeAt(disk, ToDst(p)).kind = InodeAt(disk, p).kind
                /\ InodeAt(disk, p).kind = "file" =>
                       InodeAt(disk, ToDst(p)).data = InodeAt(disk, p).data
                /\ disk.names[ToDst(p)] # pre.names[ToDst(p)]
                /\ \A r \in OldSubtree(ToDst(p)) :
                       Exists(disk, r) => disk.names[r] # pre.names[r]
                /\ HasChanged(ToDst(p))

-----------------------------------------------------------------------------
(* C11: a source symlink that Sync materializes, at a missing destination  *)
(* path or over an existing entry through the temporary path, gets the     *)
(* source's target with the first occurrence of the source root replaced   *)
(* by the destination root when the target contains the source root, and   *)
(* the source's target unchanged otherwise.                                *)

\* this call created a symlink for q, at q or at its temporary path
SymlinkMaterialized(q) ==
    \/ <<"symlink", q>> \in oplog
    \/ <<"symlink", tmpFileName(Parent(q), Base(q))>> \in oplog /\ <<"rename", q>> \in oplog

\* the target the destination symlink is to have
RewrittenTarget(target) ==
    LET i == Index(target, src, 1) IN
    IF i = 0 THEN target
    ELSE SubSeq(target, 1, i - 1) \o dst \o SubSeq(target, i + Len(src), Len(target))

C11_SymlinkRewrite ==
    ReturnedNil =>
        \A p \in SrcPaths :
            (IsSymlink(InodeAt(disk, p)) /\ SymlinkMaterialized(ToDst(p))) =>
                /\ Exists(disk, ToDst(p))
                /\ IsSymlink(InodeAt(disk, ToDst(p)))
                /\ InodeAt(disk, ToDst(p)).data = RewrittenTarget(InodeAt(disk, p).data)

\* a symlink whose target holds the source root twice, not at its start, has
\* replaced an existing entry; only the first occurrence was rewritten
C11_Witness ==
    /\ ReturnedNil
    /\ \E p \in SrcPaths :
           /\ IsSymlink(InodeAt(disk, p))
           /\ Index(InodeAt(disk, p).data, src, 1) > 1
           /\ <<"rename", ToDst(p)>> \in oplog
           /\ Exists(pre, ToDst(p))
           /\ InodeAt(disk, ToDst(p)).data = <<"O", "D", "S">>

-----------------------------------------------------------------------------
(* C12: with ignoreNotFound, a source entry that a concurrent process      *)
(* removes between its directory listing and the end of its processing     *)
(* never makes Sync return an error; without ignoreNotFound the vanished   *)
(* entry makes Sync return an error.  Stated in default mode without       *)
(* preserveOwnership and for destinations with no directory in the place   *)
(* of another kind of entry: there a call on an undisturbed source         *)
(* returns nil.                                                            *)

\* a listed source entry was removed during the call that has returned
ReturnedAfterVanish == Returned /\ run >= 1 /\ ~SourceIntact

QuietOptions == ~syncer.checkChecksum /\ ~syncer.preserveOwnership /\ KindsAgree

\* without a concurrent removal such a call does not fail
UndisturbedReturnsNil == (Returned /\ QuietOptions /\ SourceIntact) => err = NoErr

C12_VanishedTolerated ==
    /\ (ReturnedAfterVanish /\ QuietOptions /\ syncer.ignoreNotFound) => err = NoErr
    /\ (ReturnedAfterVanish /\ QuietOptions /\ ~syncer.ignoreNotFound) => err # NoErr

-----------------------------------------------------------------------------
(* C13: with preserveOwnership, after a Sync that returns no error every   *)
(* destination entry that was materialized or replaced (directory, file,   *)
(* hardlink or symlink) has the owner of its source entry.  (That a        *)
(* failing chown makes Sync fail is the Fail branch of Finish.)            *)

\* this call created q or renamed a new entry over it
MaterializedOrReplaced(q) ==
    /\ Exists(disk, q)
    /\ ~Exists(pre, q) \/ <<"rename", q>> \in oplog

C13_OwnershipPreserved ==
    (ReturnedNil /\ syncer.preserveOwnership) =>
        \A p \in SrcPaths :
            MaterializedOrReplaced(ToDst(p)) =>
                InodeAt(disk, ToDst(p)).uid = InodeAt(disk, p).uid

-----------------------------------------------------------------------------
(* C14: for every source file size (0, smaller than the buffer, a multiple *)
(* of it or not) and every positive buffer size, the copy loop returns a   *)
(* byte count equal to the source size and the destination content equals  *)
(* the source content byte for byte.                                       *)

\* copyFileContent has just returned for the regular file the callback is at
CopyReturned ==
    /\ pc \in {"rename", "finish"}
    /\ cur.info.kind = "file"
    /\ <<"open", cur.target>> \in oplog
    /\ cur.res.shouldUpdateTimes

\* where the copy is: at the path it was written to, until the rename
CopiedAt == IF pc = "finish" THEN cur.dstPath ELSE cur.target

C14_BufferBoundary ==
    (CopyReturned /\ syncer.bufferSize > 0) =>
        /\ cur.written = Len(cur.info.data)
        /\ Exists(disk, CopiedAt)
        /\ InodeAt(disk, CopiedAt).data = cur.info.data

\* a file longer than the buffer and not a multiple of it has been copied
C14_Witness ==
    /\ CopyReturned
    /\ syncer.bufferSize > 1
    /\ Len(cur.info.data) > syncer.bufferSize
    /\ Len(cur.info.data) % syncer.bufferSize # 0
    /\ cur.written = Len(cur.info.data)
    /\ InodeAt(disk, CopiedAt).data = cur.info.data

-----------------------------------------------------------------------------
(* C15: buffer size 0 *)

\* the syncers built with a buffer size of 0: New(WithBufferSize(0)), with or
\* without other options, and the command run with -buffer-size 0
BuiltWithZero ==
    {New(opts) : opts \in {o \in OptionLists :
                              \E k \in 1..Len(o) : o[k] = Opt("WithBufferSize", 0)}}
    \cup {Main(FALSE, FALSE, nc, 0) : nc \in BOOLEAN}

\* C15: a syncer built with buffer size 0, by the option or by the flag,
\* copies with the default buffer of 512 KiB: in the copy loop its buffer has
\* the default size, and a source file that has bytes left is read further
C15_ZeroMeansDefault ==
    (syncer \in BuiltWithZero /\ pc = "copy") =>
        /\ syncer.bufferSize = DefaultBufferSize
        /\ cur.written < Len(disk.inodes[cur.sfd].data)
               => Len(ReadAt(disk, cur.sfd, cur.written, syncer.bufferSize)) > 0

-----------------------------------------------------------------------------
(* C16: the three phases run in order *)

\* the operations of one kind the running call has performed
DoneOps(kind) == {e \in oplog : e[1] = kind}

TimesStarted == DoneOps("chtimes") # {}
DeletionStarted == DoneOps("remove") # {}

\* the positions of Sync inside the walk of the source
PhaseA == {"walkA", "unexisting", "copy", "rename", "finish"}

\* no destination entry is left without a source entry
NoneExtraneous ==
    \A q \in DstPaths : ~IsNotExist(Lstat(disk, Replace(q, dst, src)).err)

\* d and e hold the same entries with the same content (times and owners may
\* differ)
SameEntries(d, e) ==
    /\ DOMAIN d.names = DOMAIN e.names
    /\ \A p \in DOMAIN d.names :
          /\ InodeAt(d, p).kind = InodeAt(e, p).kind
          /\ InodeAt(d, p).data = InodeAt(e, p).data

\* C16: once a time has been set, the work of Phases A and B is complete (no
\* extraneous entry is left, nothing is waiting in the walks or in
\* dirsToRemove) and the rest of the call creates, replaces and deletes
\* nothing; once an extraneous entry has been deleted, the call takes no
\* further step of the walk of the source
C16_PhaseOrder ==
    /\ [](TimesStarted => NoneExtraneous /\ todo = <<>> /\ dirsToRemove = <<>>)
    /\ [][run' = run =>
            /\ TimesStarted => SameEntries(disk, disk') /\ pc' \in {"times", "done"}
            /\ DeletionStarted =>
                  /\ pc' \notin PhaseA
                  /\ (oplog' \ oplog) \subseteq (DoneOps("remove")' \cup DoneOps("chtimes")')
         ]_vars

\* a call that created an entry, deleted an extraneous file and an
\* extraneous directory, and is setting the times
C16_Witness ==
    /\ pc = "times"
    /\ TimesStarted
    /\ pending # {}
    /\ \E q \in PreDstPaths : <<"remove", q>> \in oplog /\ IsDir(InodeAt(pre, q))
    /\ \E q \in PreDstPaths : <<"remove", q>> \in oplog /\ ~IsDir(InodeAt(pre, q))
    /\ DoneOps("open") # {}
    /\ DoneOps("write") # {}

-----------------------------------------------------------------------------
(* C17: extraneous directories are removed last, deepest first *)

\* the step removes the directory q of the tree Sync found
RemovesDir(q) ==
    /\ q \in PreDstPaths
    /\ IsDir(InodeAt(pre, q))
    /\ Exists(disk, q)
    /\ ~Exists(disk', q)
    /\ <<"remove", q>> \in oplog'

\* the entries Sync found below q
FoundBelow(q) == {r \in PreDstPaths : IsPrefix(q, r) /\ r # q}

\* C17: a directory is removed as extraneous only once the walk of the
\* destination has ended; it is the last one of dirsToRemove (the directories
\* visited before it stay in the list, the ones visited after it are gone);
\* at that moment it is empty, every entry that was found inside it is
\* removed and marked as changed, and so is the directory itself; and no
\* removal ever fails on a directory that is not empty
C17_DirsRemovedLast ==
    /\ [](err # "ENOTEMPTY")
    /\ [][\A q \in PreDstPaths :
            RemovesDir(q) =>
               /\ pc = "rmdirs"
               /\ dirsToRemove = Append(dirsToRemove', q)
               /\ Children(disk, q) = {}
               /\ HasChanged(q)
               /\ \A r \in FoundBelow(q) : ~Exists(disk, r) /\ HasChanged(r)
         ]_vars

\* two extraneous directories, one inside the other and holding a file, are
\* gone, and a third one that was visited before them is still waiting
C17_Witness ==
    /\ pc = "rmdirs"
    /\ dirsToRemove # <<>>
    /\ \E q \in PreDstPaths :
          /\ <<"remove", q>> \in oplog
          /\ IsDir(InodeAt(pre, q))
          /\ FoundBelow(q) # {}
          /\ \E r \in PreDstPaths :
                <<"remove", r>> \in oplog /\ IsDir(InodeAt(pre, r)) /\ ~IsPrefix(q, r)

-----------------------------------------------------------------------------
(* C18: a replacement that fails leaves the old entry *)

\* the step is the return of Sync on an error met while syncExistingFile was
\* building the new entry at the temporary path
ReplacerFails ==
    /\ cur.replace
    /\ pc \in {"unexisting", "copy"}
    /\ pc' = "done"
    /\ err' # NoErr

\* in d, q holds the entry Sync found there, with all that was below it
HeldAsFound(d, q) ==
    /\ Exists(pre, q) /\ Exists(d, q)
    /\ d.names[q] = pre.names[q]
    /\ InodeAt(d, q).kind = InodeAt(pre, q).kind
    /\ InodeAt(d, q).data = InodeAt(pre, q).data
    /\ \A r \in FoundBelow(q) : Exists(d, r)

\* C18 as stated: when building the new entry at the temporary path fails,
\* nothing was renamed over the destination path, Sync returns an error, and
\* the path holds its old entry, whatever the kinds of the two entries
C18_AllOrNothing ==
    [][ReplacerFails =>
          /\ <<"rename", cur.dstPath>> \notin oplog'
          /\ HeldAsFound(disk', cur.dstPath)
      ]_vars

\* C18, amended: the same, when the two entries are both directories or both
\* not; after a type mismatch the old subtree was removed before the new
\* entry was built, and the failure leaves the path absent
C18_AllOrNothingSameKind ==
    [][ReplacerFails =>
          /\ <<"rename", cur.dstPath>> \notin oplog'
          /\ IF ReplacingOtherKind THEN ~Exists(disk', cur.dstPath)
             ELSE HeldAsFound(disk', cur.dstPath)
      ]_vars

\* Sync returned an error after a source file vanished between the walk's
\* Lstat and its opening for the replacement of a different destination file,
\* which is still there as it was found
C18_Witness ==
    /\ Returned /\ err = "ENOENT" /\ run = 1
    /\ syncer.ignoreNotFound /\ ~syncer.checkChecksum
    /\ KindsAgree
    /\ \E p \in DOMAIN pre.names :
          /\ InSrc(p) /\ ~Exists(disk, p)
          /\ InodeAt(pre, p).kind = "file"
          /\ Exists(pre, ToDst(p))
          /\ InodeAt(pre, ToDst(p)).kind = "file"
          /\ InodeAt(pre, ToDst(p)).data # InodeAt(pre, p).data
          /\ HeldAsFound(disk, ToDst(p))
          /\ <<"rename", ToDst(p)>> \notin oplog

-----------------------------------------------------------------------------
(* C19: the entries of inoMap *)

\* the step changes the entry of inode i in inoMap
Rewritten(i) ==
    /\ i \in DOMAIN state.inoMap
    /\ i \in DOMAIN state'.inoMap
    /\ state'.inoMap[i] # state.inoMap[i]

\* the step is the correction after the rename, from the temporary path to
\* the destination path
Correction(i) ==
    /\ pc = "rename" /\ pc' = "finish"
    /\ i = cur.ino
    /\ state.inoMap[i] = cur.target
    /\ state'.inoMap[i] = cur.dstPath

\* the step writes the destination path over the path of an earlier name of
\* the same inode, which the destination path is now a hard link of
LaterName(i) ==
    /\ pc = "rename" /\ pc' = "finish"
    /\ i = cur.ino
    /\ <<"link", cur.target>> \in oplog
    /\ state'.inoMap[i] = cur.dstPath
    /\ Exists(disk', state.inoMap[i])
    /\ disk'.names[state.inoMap[i]] = disk'.names[cur.dstPath]

\* an entry is first written by syncUnexistingFile, with the path it builds
FirstWritten(i) ==
    /\ i \notin DOMAIN state.inoMap
    /\ i \in DOMAIN state'.inoMap
    => pc = "unexisting" /\ i = cur.ino /\ state'.inoMap[i] = cur.target

-----------------------------------------------------------------------------
(* C20: what a hard link is made of *)

\* q is a temporary name of syncExistingFile
IsTmpPath(q) ==
    \E p \in DOMAIN pre.names :
        InSrc(p) /\ q = tmpFileName(Parent(ToDst(p)), Base(ToDst(p)))

\* the step is syncUnexistingFile finding the inode of its source entry in
\* inoMap
LinksExisting == pc = "unexisting" /\ cur.ino \in DOMAIN state.inoMap /\ pc' # pc

\* C20: when Sync makes a hard link, the path it links to is no temporary
\* name, exists and holds the content of the source inode, the link is made
\* (os.Link does not fail) and the new name is that same file; and whenever
\* the walk of the source is between two entries no value of inoMap is a
\* temporary name
C20_HardlinkTarget ==
    /\ [](pc = "walkA" => \A i \in DOMAIN state.inoMap : ~IsTmpPath(state.inoMap[i]))
    /\ [][LinksExisting =>
            LET existingLink == state.inoMap[cur.ino] IN
            /\ ~IsTmpPath(existingLink)
            /\ InDst(existingLink)
            /\ Exists(disk, existingLink)
            /\ InodeAt(disk, existingLink).kind = "file"
            /\ InodeAt(disk, existingLink).data = cur.info.data
            /\ err' = NoErr
            /\ Exists(disk', cur.target)
            /\ disk'.names[cur.target] = disk.names[existingLink]
         ]_vars

\* the first name of a source inode went through an atomic replace, and the
\* second name is now a hard link of the replaced destination file
C20_Witness ==
    /\ pc = "finish"
    /\ <<"link", cur.dstPath>> \in oplog
    /\ \E q \in DstPaths :
          /\ q # cur.dstPath
          /\ <<"rename", q>> \in oplog
          /\ state.inoMap[cur.ino] = q
          /\ disk.names[q] = disk.names[cur.dstPath]
          /\ InodeAt(disk, q).data = cur.info.data

-----------------------------------------------------------------------------
(* C21: a type mismatch in checksum mode *)

\* p and its counterpart were found with a directory on one side only
OneIsDir(p) ==
    /\ InSrc(p)
    /\ Exists(pre, p) /\ Exists(pre, ToDst(p))
    /\ IsDir(InodeAt(pre, p)) # IsDir(InodeAt(pre, ToDst(p)))

\* the only entries Sync found on both sides are pairs of directories and
\* pairs with a directory on one side
OnlyDirsAndMismatches ==
    \A p \in DOMAIN pre.names :
        (InSrc(p) /\ Exists(pre, ToDst(p))) =>
            (OneIsDir(p) \/ (IsDir(InodeAt(pre, p)) /\ IsDir(InodeAt(pre, ToDst(p)))))

\* C21: in checksum mode a call that meets a directory against another kind
\* of entry returns no error and, as in default mode, leaves the destination
\* path with the source's kind and content and reports it as changed
C21_ChecksumTypeReplaced ==
    (/\ Returned /\ run >= 1
     /\ syncer.checkChecksum
     /\ OnlyDirsAndMismatches
     /\ \E p \in DOMAIN pre.names : OneIsDir(p))
    => /\ err = NoErr
       /\ \A p \in SrcPaths :
             OneIsDir(p) =>
                /\ Exists(disk, ToDst(p))
                /\ InodeAt(disk, ToDst(p)).kind = InodeAt(disk, p).kind
                /\ InodeAt(disk, p).kind = "file" =>
                       InodeAt(disk, ToDst(p)).data = InodeAt(disk, p).data
                /\ HasChanged(ToDst(p))

-----------------------------------------------------------------------------
(* C22: the report *)

\* the running call created an entry at q, renamed one over q, or removed q,
\* alone or with the subtree it was in
Altered(q) ==
    \/ \E op \in {"open", "mkdir", "symlink", "link", "rename", "remove"} : <<op, q>> \in oplog
    \/ RemovedWithSubtree(q)

\* every mismatched path is itself in the report
MismatchesReported == \A p \in DOMAIN pre.names : OneIsDir(p) => HasChanged(ToDst(p))

\* C22: after a call that returns no error, the report holds exactly the
\* destination paths the call created, replaced or deleted
C22_ReportExact ==
    (ReturnedNil /\ run >= 1 /\ MismatchesReported) =>
        /\ report \subseteq (PreDstPaths \cup DstPaths)
        /\ \A q \in PreDstPaths \cup DstPaths : HasChanged(q) <=> Altered(q)

-----------------------------------------------------------------------------
(* C23: an error ends the call *)

\* the step is the return of Sync with an error
Aborts == pc # "done" /\ pc' = "done" /\ err' # NoErr

\* the step undoes nothing: it creates no entry, rewrites none, and removes
\* only what the os.RemoveAll of a type mismatch removes
NotRolledBack ==
    /\ DOMAIN disk'.names \subseteq DOMAIN disk.names
    /\ \A q \in DOMAIN disk'.names :
          /\ disk'.names[q] = disk.names[q]
          /\ InodeAt(disk', q).data = InodeAt(disk, q).data
    /\ \A q \in DOMAIN disk.names \ DOMAIN disk'.names :
          \E r \in PreDstPaths : <<"removeall", r>> \in (oplog' \ oplog) /\ IsPrefix(r, q)

\* C23: an error is met only by the step that returns it; when that step is
\* in Phase A the call has removed no extraneous entry and set no time, when
\* it is in Phase B the call has set no time; what the call did before the
\* error is left as it is; and a call that has returned does nothing more
C23_FatalAborts ==
    /\ [](err # NoErr => pc = "done")
    /\ [][/\ Aborts =>
               /\ pc \in PhaseA => DoneOps("remove")' = {} /\ DoneOps("chtimes")' = {}
               /\ pc \in {"walkB", "rmdirs"} => DoneOps("chtimes")' = {}
               /\ NotRolledBack
          /\ (pc = "done" /\ run' = run) => disk' = disk
         ]_vars

\* Phase B has returned an error after it removed an extraneous entry: the
\* entry Phase A copied is there, the times it scheduled are not set
C23_Witness ==
    /\ Returned /\ err = "ENOENT"
    /\ QuietOptions /\ syncer.ignoreNotFound /\ SourceIntact
    /\ DoneOps("remove") # {}
    /\ DoneOps("chtimes") = {}
    /\ state.timesMap # EmptyMap
    /\ \E q \in DstPaths : <<"open", q>> \in oplog /\ ~Exists(pre, q)

-----------------------------------------------------------------------------
(* C24: an entry without detailed metadata *)

\* the step is the callback of the walk of the source on an entry for which
\* the platform gives no *syscall.Stat_t: the source entry itself, or the
\* destination entry that exists at its path
MeetsNoSysStat ==
    /\ pc = "walkA" /\ todo # <<>>
    /\ Lstat(disk, Head(todo)).err = NoErr
    /\ \/ WalkA_VisitWith(FALSE, TRUE)
       \/ /\ Lstat(disk, Replace(Head(todo), src, dst)).err = NoErr
          /\ WalkA_VisitWith(TRUE, FALSE)

\* C24: when the platform gives no detailed metadata for a source entry or
\* for an existing destination entry, Sync returns an error
C24_StructuralErrorFatal ==
    [][MeetsNoSysStat => (pc' = "done" /\ err' # NoErr)]_vars

-----------------------------------------------------------------------------
(* C25: a source root that does not exist *)

\* the running call was made with no entry at the source root
SourceRootMissing == run >= 1 /\ pc # "idle" /\ ~Exists(pre, SrcRoot)

\* C25: a call made when the source root does not exist removes nothing from
\* the destination tree, and returns an error
C25_MissingSourceRoot ==
    SourceRootMissing =>
        /\ \A q \in PreDstPaths : Exists(disk, q)
        /\ Returned => err # NoErr

-----------------------------------------------------------------------------
(* C26: no times for symlinks *)

\* the source entry of the destination path q is a symlink
SourceIsSymlink(q) == Exists(pre, ToSrc(q)) /\ IsSymlink(InodeAt(pre, ToSrc(q)))

\* C26: at every point of a call, in default mode and in checksum mode, no
\* key of timesMap is the destination path of a source symlink, and Phase C
\* sets no time at such a path
C26_NoTimesForSymlinks ==
    \A q \in DOMAIN state.timesMap \cup pending \cup {e[2] : e \in DoneOps("chtimes")} :
        ~SourceIsSymlink(q)

-----------------------------------------------------------------------------
(* C27: the call changes the destination tree only *)

\* C27: at every point of a call, every entry that was outside the
\* destination tree when Sync was called (under the source root or
\* elsewhere) is there with the same kind, content, mode, owner and times,
\* and no entry has appeared outside the destination tree
C27_OneWayFrame ==
    run >= 1 =>
        /\ \A p \in DOMAIN pre.names :
              ~InDst(p) =>
                  /\ Exists(disk, p)
                  /\ disk.names[p] = pre.names[p]
                  /\ InodeAt(disk, p) = InodeAt(pre, p)
        /\ \A p \in DOMAIN disk.names : ~InDst(p) => Exists(pre, p)

-----------------------------------------------------------------------------
(* The paths of the two walks, as strings *)

\* a string is the sequence of its characters
Slash == "/"
Dot == "."

RECURSIVE SplitSlash(_)
\* strings.Split(s, "/")
SplitSlash(s) ==
    IF \A i \in 1..Len(s) : s[i] # Slash THEN <<s>>
    ELSE LET i == CHOOSE j \in 1..Len(s) : s[j] = Slash /\ \A k \in 1..(j - 1) : s[k] # Slash
         IN <<SubSeq(s, 1, i - 1)>> \o SplitSlash(SubSeq(s, i + 1, Len(s)))

RECURSIVE JoinSlash(_)
\* strings.Join(elems, "/")
JoinSlash(elems) ==
    IF elems = <<>> THEN <<>>
    ELSE IF Len(elems) = 1 THEN elems[1]
    ELSE elems[1] \o <<Slash>> \o JoinSlash(Tail(elems))

RECURSIVE CleanElems(_, _, _)
\* the elements filepath.Clean keeps: no empty one, no ".", and ".." takes
\* the element before it away (at the root it is dropped)
CleanElems(elems, out, rooted) ==
    IF elems = <<>> THEN out
    ELSE LET e == Head(elems) IN
         IF e = <<>> \/ e = <<Dot>> THEN CleanElems(Tail(elems), out, rooted)
         ELSE IF e = <<Dot, Dot>>
         THEN IF out # <<>> /\ out[Len(out)] # <<Dot, Dot>>
              THEN CleanElems(Tail(elems), SubSeq(out, 1, Len(out) - 1), rooted)
              ELSE IF rooted THEN CleanElems(Tail(elems), out, rooted)
              ELSE CleanElems(Tail(elems), Append(out, e), rooted)
         ELSE CleanElems(Tail(elems), Append(out, e), rooted)

\* filepath.Clean on a string
CleanPath(s) ==
    LET rooted == s # <<>> /\ s[1] = Slash
        body == JoinSlash(CleanElems(SplitSlash(s), <<>>, rooted))
        r == IF rooted THEN <<Slash>> \o body ELSE body
    IN IF r = <<>> THEN <<Dot>> ELSE r

\* filepath.Join(dir, name), dir not empty
JoinPath(dir, name) == CleanPath(dir \o <<Slash>> \o name)

RECURSIVE WalkPath(_, _)
\* the path filepath.Walk(root, ...) gives for the entry at the relative
\* path r (a sequence of names): each level joins the name to its directory
WalkPath(root, r) ==
    IF r = <<>> THEN root ELSE JoinPath(WalkPath(root, SubSeq(r, 1, Len(r) - 1)), r[Len(r)])

\* the roots a caller passes
RootArgs ==
    {<<Slash, "s">>, <<"s">>, <<Dot>>, <<Slash>>, <<Dot, Slash, "s">>, <<"s", Slash>>,
     <<Slash, "d">>, <<"d">>, <<Dot, Dot, Slash, "s">>, <<Slash, "s", Slash, "a">>}

\* the names of entries, one of them with a dot
EntryNames == {<<"a">>, <<"s">>, <<"d">>, <<"a", Dot, "s">>}

MaxDepth == 2

\* the relative paths of the entries of a tree
RelPaths == UNION {[1..n -> EntryNames] : n \in 0..MaxDepth}

InitPaths ==
    /\ src \in RootArgs
    /\ dst \in RootArgs
    /\ pc = "idle"
    /\ disk = DiskOf(SrcEntries("none", "none") \cup DstEntries("none", "none", "none"))
    /\ syncer = New(<<>>)
    /\ todo = <<>>
    /\ state = [timesMap |-> EmptyMap, inoMap |-> EmptyMap]
    /\ report = {}
    /\ err = NoErr
    /\ cur = NoCur
    /\ dirsToRemove = <<>>
    /\ pending = {}
    /\ run = 0
    /\ oplog = {}
    /\ pre = disk
    /\ sched = OneCall

\* src = filepath.Clean(src); dst = filepath.Clean(dst)
Paths_Begin ==
    /\ pc = "idle"
    /\ src' = CleanPath(src)
    /\ dst' = CleanPath(dst)
    /\ pc' = "walkA"
    /\ run' = run + 1
    /\ UNCHANGED <<disk, syncer, todo, state, report, err, cur, dirsToRemove, pending,
                   oplog, pre, sched>>

\* the Phase A callback at the source entry r: dstPath
Paths_WalkA ==
    /\ pc = "walkA"
    /\ \E r \in RelPaths :
          LET path == WalkPath(src, r) IN
          cur' = [rel |-> r, path |-> path, dstPath |-> Replace(path, src, dst)]
    /\ UNCHANGED <<disk, syncer, src, dst, pc, todo, state, report, err, dirsToRemove,
                   pending, run, oplog, pre, sched>>

\* the second walk starts
Paths_WalkA_End ==
    /\ pc = "walkA"
    /\ pc' = "walkB"
    /\ cur' = NoCur
    /\ UNCHANGED <<disk, syncer, src, dst, todo, state, report, err, dirsToRemove,
                   pending, run, oplog, pre, sched>>

\* the Phase B callback at the destination entry r: srcPath
Paths_WalkB ==
    /\ pc = "walkB"
    /\ \E r \in RelPaths :
          LET path == WalkPath(dst, r) IN
          cur' = [rel |-> r, path |-> path, srcPath |-> Replace(path, dst, src)]
    /\ UNCHANGED <<disk, syncer, src, dst, pc, todo, state, report, err, dirsToRemove,
                   pending, run, oplog, pre, sched>>

NextPaths ==
    \/ Paths_Begin
    \/ Paths_WalkA
    \/ Paths_WalkA_End
    \/ Paths_WalkB

SpecPaths == InitPaths /\ [][NextPaths]_vars

\* root/r
Under(root, r) == CleanPath(root \o <<Slash>> \o JoinSlash(r))

AtEntry == "rel" \in DOMAIN cur

\* C28: in Phase A the destination path computed for the source entry at
\* the relative path r names destRoot/r, and in Phase B the source path
\* computed for the destination entry at r names sourceRoot/r, for absolute
\* and relative roots and "."
C28_PathMapping ==
    /\ (pc = "walkA" /\ AtEntry) => CleanPath(cur.dstPath) = Under(dst, cur.rel)
    /\ (pc = "walkB" /\ AtEntry) => CleanPath(cur.srcPath) = Under(src, cur.rel)

-----------------------------------------------------------------------------
(* C29: a call returns *)

Running == pc \notin {"idle", "done"}

\* C29: with finite trees and nothing else changing them, a Sync call that
\* has started eventually returns, whatever options the syncer was built
\* with
C29_Terminates == Running ~> (pc = "done")

-----------------------------------------------------------------------------
(* Reads and writes that fail in the copy loop *)

ErrShortWrite == "ErrShortWrite"
EOF == "EOF"

\* the loop goes on after a write of fewer bytes than were read
CopyErr_NoShortCheck(nr, nw, er, ew) ==
    IF nr > 0 /\ ew # NoErr THEN ew
    ELSE IF er # NoErr /\ er # EOF THEN er
    ELSE NoErr

\* copyContent: the error one iteration ends the loop with, after a read of
\* nr bytes with the error er and a write of nw bytes with the error ew
\* (NoErr: the loop goes on, or ends at the end of the input)
CopyErr(nr, nw, er, ew) ==
    IF nr > 0 /\ ew # NoErr THEN ew
    ELSE IF nr > 0 /\ nr # nw THEN ErrShortWrite
    ELSE IF er # NoErr /\ er # EOF THEN er
    ELSE NoErr

ReadErrs == {NoErr, "EIO"}
WriteErrs == {NoErr, "ENOSPC"}

\* one iteration of the copy loop in which the read gives nr bytes and the
\* error er, and the write takes nw of them and gives the error ew; an error
\* ends copyContent, copyFileContent closes both descriptors and returns -1
\* with the error, and the callers hand the error up to Sync
CopyWith(nr, nw, er, ew) ==
    LET buf == ReadAt(disk, cur.sfd, cur.written, syncer.bufferSize)
        e == CopyErr(nr, nw, er, ew)
        d == IF nw > 0 THEN WriteAt(disk, cur.fd, cur.written, SubSeq(buf, 1, nw)) ELSE disk
        log == oplog
               \cup (IF nw > 0 THEN {<<"write", cur.target>>} ELSE {})
               \cup Fadvise(syncer.noCache, cur.path, cur.target, cur.written, nr, nw)
    IN /\ nr <= Len(buf)
       /\ nw <= nr
       /\ nr = 0 => ew = NoErr
       /\ IF e # NoErr THEN Fail(Wrapf(e), d, report, log)
          ELSE /\ disk' = d
               /\ oplog' = log
               /\ cur' = [cur EXCEPT !.written = @ + nw]
               /\ UNCHANGED <<syncer, pc, src, dst, todo, state, report, err,
                              dirsToRemove, pending, run, pre, sched>>

\* a read error, a write error or a short write
Faulty(nr, nw, er, ew) == er # NoErr \/ ew # NoErr \/ nw < nr

Copy_Faulty ==
    /\ pc = "copy"
    /\ syncer.bufferSize > 0
    /\ \E nr \in 0..MaxBuf, nw \in 0..MaxBuf, er \in ReadErrs, ew \in WriteErrs :
          /\ Faulty(nr, nw, er, ew)
          /\ CopyWith(nr, nw, er, ew)

NextFaulty ==
    \/ Next
    \/ Copy_Faulty

SpecFaulty == InitCopy /\ [][NextFaulty]_vars

\* the loop is at a read of nr bytes with er and a write of nw bytes with ew
MeetsFault(nr, nw, er, ew) ==
    /\ pc = "copy"
    /\ syncer.bufferSize > 0
    /\ Faulty(nr, nw, er, ew)
    /\ CopyWith(nr, nw, er, ew)

\* C30: a write that takes fewer bytes than were read ends the copy with a
\* short-write error, a write error or a read error other than the end of
\* the input ends it with that error; Sync then returns the error and both
\* descriptors are closed
C30_CopyLoopErrors ==
    [][\A nr \in 0..MaxBuf, nw \in 0..MaxBuf, er \in ReadErrs, ew \in WriteErrs :
          MeetsFault(nr, nw, er, ew) =>
              /\ pc' = "done"
              /\ err' = (IF ew # NoErr THEN ew
                         ELSE IF nw < nr THEN ErrShortWrite
                         ELSE er)
              /\ cur'.sfd = 0
              /\ cur'.fd = 0]_vars

\* a call has returned the short-write error after a part of a block was
\* written
C30_Witness ==
    /\ pc = "done"
    /\ err = ErrShortWrite
    /\ \E q \in DstPaths : <<"write", q>> \in oplog /\ InodeAt(disk, q).data # <<>>

-----------------------------------------------------------------------------
(* C31: the byte range of an advisory *)

\* the advisories a step issues
Advised == {e \in oplog' \ oplog : e[1] = "fadvise"}

\* C31: every advisory the copy loop issues has as its offset the number of
\* bytes transferred before the chunk and as its length the number of bytes
\* of the chunk just read and written
C31_AdvisoryRange ==
    [][\A e \in Advised :
          /\ pc = "copy"
          /\ e[3] = cur.written
          /\ pc' = "copy" => e[4] = cur'.written - cur.written]_vars

-----------------------------------------------------------------------------
(* Sync calls of several goroutines on one FsSyncer value *)

\* the variables of one call: what Sync allocates (state, report) and its
\* position
Locals ==
    [pc |-> pc, src |-> src, dst |-> dst, todo |-> todo, state |-> state,
     report |-> report, err |-> err, cur |-> cur, dirsToRemove |-> dirsToRemove,
     pending |-> pending, run |-> run, oplog |-> oplog, pre |-> pre]

\* the roots of call i: call 0 runs before the others start, on a copy of
\* the trees of call 1; calls 1 and 2 run together
SrcOf(i) == CASE i = 0 -> <<"S0">> [] i = 1 -> SrcRoot [] OTHER -> <<"S2">>
DstOf(i) == CASE i = 0 -> <<"D0">> [] i = 1 -> DstRoot [] OTHER -> <<"D2">>

\* the entries E of the trees S and D, as the trees of call i
TreesOf(i, E) ==
    {Entry((IF Head(e.p) = "S" THEN SrcOf(i) ELSE DstOf(i)) \o Tail(e.p), e.i + 20 * i, e.n) :
         e \in E}

\* files to create, to replace, to link and to leave, extraneous entries
TwoTrees ==
    {SrcEntries("file", "none") \cup DstEntries("data", "none", "dir"),
     SrcEntries("hard", "none") \cup DstEntries("same", "none", "none"),
     SrcEntries("symrel", "none") \cup DstEntries("data", "none", "dir")}

TwoDisks ==
    {DiskOf(TreesOf(0, E) \cup TreesOf(1, E) \cup TreesOf(2, F)) :
         E \in TwoTrees,
         F \in {SrcEntries("file", "none") \cup DstEntries("data", "none", "dir"),
                SrcEntries("hard", "none") \cup DstEntries("none", "none", "none")}}

TwoSyncers ==
    {New(opts) : opts \in {<<Opt("WithBufferSize", CopyBuf)>>,
                           <<Opt("WithChecksum", 0), Opt("WithBufferSize", CopyBuf)>>,
                           <<Opt("PreserveOwnership", 0), Opt("NoCache", 0),
                             Opt("WithBufferSize", CopyBuf)>>}}

IdleCall ==
    [pc |-> "idle", src |-> <<>>, dst |-> <<>>, todo |-> <<>>,
     state |-> [timesMap |-> EmptyMap, inoMap |-> EmptyMap], report |-> {},
     err |-> NoErr, cur |-> NoCur, dirsToRemove |-> <<>>, pending |-> {}, run |-> 0,
     oplog |-> {}, pre |-> [names |-> EmptyMap, inodes |-> EmptyMap]]

InitTwo ==
    /\ disk \in TwoDisks
    /\ syncer \in TwoSyncers
    /\ pc = "idle"
    /\ src = <<>>
    /\ dst = <<>>
    /\ todo = <<>>
    /\ state = [timesMap |-> EmptyMap, inoMap |-> EmptyMap]
    /\ report = {}
    /\ err = NoErr
    /\ cur = NoCur
    /\ dirsToRemove = <<>>
    /\ pending = {}
    /\ run = 0
    /\ oplog = {}
    /\ pre = disk
    /\ sched = [id |-> 0, saved |-> [j \in {1, 2} |-> IdleCall]]

\* a goroutine calls Sync on its trees, once
Sync_BeginOf ==
    /\ pc = "idle"
    /\ Sync_BeginWith(SrcOf(sched.id), DstOf(sched.id))

\* the report is one map of the FsSyncer, not one per call
Switch_SharedReport ==
    /\ sched.id = 0 => pc = "done"
    /\ \E j \in DOMAIN sched.saved \ {0} :
          LET c == sched.saved[j] IN
          /\ pc' = c.pc
          /\ src' = c.src
          /\ dst' = c.dst
          /\ todo' = c.todo
          /\ state' = c.state
          /\ err' = c.err
          /\ cur' = c.cur
          /\ dirsToRemove' = c.dirsToRemove
          /\ pending' = c.pending
          /\ run' = c.run
          /\ oplog' = c.oplog
          /\ pre' = c.pre
          /\ sched' = [id |-> j,
                       saved |-> [k \in (DOMAIN sched.saved \ {j}) \cup {sched.id} |->
                                     IF k = sched.id THEN Locals ELSE sched.saved[k]]]
    /\ UNCHANGED <<disk, syncer, report>>

\* the scheduler runs another goroutine: call 0 is left when it has returned
\* and is not run again, calls 1 and 2 are left and resumed at any step
Switch ==
    /\ sched.id = 0 => pc = "done"
    /\ \E j \in DOMAIN sched.saved \ {0} :
          LET c == sched.saved[j] IN
          /\ pc' = c.pc
          /\ src' = c.src
          /\ dst' = c.dst
          /\ todo' = c.todo
          /\ state' = c.state
          /\ report' = c.report
          /\ err' = c.err
          /\ cur' = c.cur
          /\ dirsToRemove' = c.dirsToRemove
          /\ pending' = c.pending
          /\ run' = c.run
          /\ oplog' = c.oplog
          /\ pre' = c.pre
          /\ sched' = [id |-> j,
                       saved |-> [k \in (DOMAIN sched.saved \ {j}) \cup {sched.id} |->
                                     IF k = sched.id THEN Locals ELSE sched.saved[k]]]
    /\ UNCHANGED <<disk, syncer>>

NextTwo ==
    \/ Sync_BeginOf
    \/ Switch
    \/ WalkA_Visit
    \/ Unexisting
    \/ Copy
    \/ Replace_Rename
    \/ Finish
    \/ WalkA_End
    \/ WalkB_Visit
    \/ WalkB_End
    \/ RemoveDir
    \/ RemoveDirs_End
    \/ SetTimes
    \/ Sync_Return

SpecTwo == InitTwo /\ [][NextTwo]_vars

-----------------------------------------------------------------------------
(* C32: calls on disjoint trees are independent *)

\* the variables of call i
CallOf(i) == IF sched.id = i THEN Locals ELSE sched.saved[i]

HasReturned(i) == CallOf(i).pc = "done"

\* the tree at root in d: what is at each path below root, and the paths that
\* are links of one file
TreeAt(d, root) ==
    LET below == {q \in DOMAIN d.names : IsPrefix(root, q)}
        rel(q) == SubSeq(q, Len(root) + 1, Len(q))
    IN [entries |-> [r \in {rel(q) : q \in below} |-> d.inodes[d.names[root \o r]]],
        links |-> {<<rel(t[1]), rel(t[2])>> :
                       t \in {u \in below \X below : d.names[u[1]] = d.names[u[2]]}}]

\* what call i has returned and left: the error, the report and the
\* destination tree, with the paths taken from the destination root
Outcome(i) ==
    [err |-> CallOf(i).err,
     report |-> {SubSeq(q, Len(DstOf(i)) + 1, Len(q)) : q \in CallOf(i).report},
     tree |-> TreeAt(disk, DstOf(i))]

\* call 0 has run alone
AloneDone == sched.id # 0

\* a step of a call leaves the trees of the other calls as they are
OthersUntouched ==
    \A i \in DOMAIN sched.saved :
        /\ TreeAt(disk', SrcOf(i)) = TreeAt(disk, SrcOf(i))
        /\ TreeAt(disk', DstOf(i)) = TreeAt(disk, DstOf(i))

\* C32: of two Sync calls that run together on disjoint trees with one
\* FsSyncer, in every interleaving of their steps, a call ends with the error,
\* the report and the destination tree of the call that ran alone on the same
\* trees, and no step of a call changes the trees of another
C32_Independent ==
    /\ []((AloneDone /\ HasReturned(1)) => Outcome(1) = Outcome(0))
    /\ [][sched' = sched => OthersUntouched]_vars

\* call 2 started while call 1 was at work and is still at work when call 1
\* has returned with a changed destination
C32_Witness ==
    /\ AloneDone
    /\ HasReturned(1) /\ CallOf(1).err = NoErr /\ CallOf(1).report # {}
    /\ ~HasReturned(2) /\ CallOf(2).oplog # {}
    /\ TreeAt(CallOf(2).pre, DstOf(1)) # TreeAt(CallOf(1).pre, DstOf(1))
    /\ TreeAt(CallOf(2).pre, DstOf(1)) # TreeAt(disk, DstOf(1))

====
